---- MODULE Spec2Model ----
(***************************************************************************)
(* Agent registry/factory, consensus merger and agent coordinator of the   *)
(* idea-development assistant (src/agents/agent_factory.py,                *)
(* src/agents/composition/consensus_manager.py,                            *)
(* src/agents/composition/agent_coordinator.py).                           *)
(*                                                                         *)
(* Spec          the AgentFactory class: register_agent and the            *)
(*               lru_cache-wrapped create_agent                            *)
(* SpecConsensus ConsensusManager.get_consensus_suggestions on bounded     *)
(*               inputs                                                    *)
(* SpecMerge     ConsensusManager.merge_implementation_steps on bounded    *)
(*               inputs                                                    *)
(* SpecCoord     AgentCoordinator.process_complex_idea                     *)
(* SpecAgent     process_idea of the agents the factory creates            *)
(*               (agents/domain_agent.py, agents/specialized_agents/)      *)
(* SpecProcessor IdeaProcessor.develop_idea (core/idea_processor.py)       *)
(***************************************************************************)
EXTENDS Integers, Sequences, FiniteSets, TLC

VARIABLES
    agent_registry,      \* AgentFactory._agent_registry: domain -> agent class
    create_agent_cache,  \* the lru_cache of create_agent, least recently used first
    instances,           \* every agent object constructed so far; the index is its identity
    returned,            \* history: per domain, the identities create_agent has returned
    register_calls,      \* number of register_agent calls made so far
    last_call,           \* the most recent factory call and its outcome
    responses,           \* argument of the ConsensusManager functions
    threshold,           \* argument `threshold`, in tenths
    hash_order,          \* iteration order of Python sets of str in this process
    cm_pc,               \* "ready" before the ConsensusManager call, "done" after
    cm_result,           \* what the ConsensusManager call returned or raised
    co_agents,           \* AgentCoordinator: domains of primary_agent and supporting_agents
    co_pc,               \* position inside process_complex_idea
    co_primary,          \* primary_response: <<>> until the primary agent returned it
    co_responses,        \* supporting_responses collected so far
    co_result,           \* what process_complex_idea returned or raised
    agent_state,         \* per domain, the state of the agent create_agent returns for it
    diagram_cache,       \* the lru_cache of DiagramService.generate_diagram
    db_ideas,            \* number of rows of table ideas
    db_diagrams,         \* rows of table diagrams, oldest first
    ag_domain,           \* domain of the agent whose process_idea is called
    ag_calls,            \* number of process_idea calls made so far
    ag_history,          \* history: ideas processed and analyses obtained so far
    ag_last,             \* the most recent process_idea call and its outcome
    ip_collaborative_agents, \* IdeaProcessor._collaborative_agents
    ip_calls,            \* number of develop_idea calls made so far
    ip_last,             \* the most recent develop_idea call and its outcome
    coordinators,        \* every AgentCoordinator constructed so far; the index is its identity
    collab_calls,        \* number of create_collaborative_agent calls made so far
    collab_last,         \* the most recent create_collaborative_agent call and its outcome
    threads,             \* per worker thread, its position in create_agent and what it holds
    an_threads,          \* per worker thread, its position in _analyze_idea and what it holds
    an_completions,      \* cache keys of the analysis completions requested so far, in order
    task_registry,       \* SubtaskDelegator.task_registry
    st_last              \* the most recent create_subtasks call and its outcome

factory_vars == <<agent_registry, create_agent_cache, instances, returned,
                  register_calls, last_call>>
cm_vars == <<responses, threshold, hash_order, cm_pc, cm_result>>
co_vars == <<co_agents, co_pc, co_primary, co_responses, co_result>>
svc_vars == <<agent_state, diagram_cache, db_ideas, db_diagrams>>
ag_vars == <<ag_domain, ag_calls, ag_history, ag_last>>
ip_vars == <<ip_collaborative_agents, ip_calls, ip_last>>
collab_vars == <<coordinators, collab_calls, collab_last>>
an_vars == <<an_threads, an_completions>>
st_vars == <<task_registry, st_last>>
ext_vars == <<collab_vars, threads, an_vars, st_vars>>
vars == <<agent_registry, create_agent_cache, instances, returned, register_calls,
          last_call, responses, threshold, hash_order, cm_pc, cm_result,
          co_agents, co_pc, co_primary, co_responses, co_result,
          agent_state, diagram_cache, db_ideas, db_diagrams,
          ag_domain, ag_calls, ag_history, ag_last,
          ip_collaborative_agents, ip_calls, ip_last,
          coordinators, collab_calls, collab_last, threads,
          an_threads, an_completions, task_registry, st_last>>

Min(a, b) == IF a <= b THEN a ELSE b

Range(s) == {s[i] : i \in 1..Len(s)}

(***************************************************************************)
(* Bounds of the exploration.                                              *)
(***************************************************************************)
NumDomains == 3        \* how many members of DomainType the calls range over
MaxRegisterCalls == 2  \* register_agent calls per behaviour
MaxResponses == 4      \* length of the list given to get_consensus_suggestions
MaxPool == 4           \* suggestions in all of its responses together
MaxMergeResponses == 3 \* length of the list given to merge_implementation_steps
MaxSteps == 3          \* steps in all of its short step lists together
MaxRotation == 0       \* set iteration orders tried: rotations 0..MaxRotation
MaxSupporting == 2     \* supporting domains of a coordinator
MaxProcessCalls == 2   \* process_idea calls on one agent per behaviour
MaxDevelopCalls == 2   \* develop_idea calls per behaviour
MaxCollabCalls == 2    \* create_collaborative_agent calls per behaviour
NumThreads == 2        \* worker threads that call create_agent concurrently
MaxKeywords == 3       \* keywords of an idea handed to create_subtasks

(***************************************************************************)
(* core/domain_types.py                                                    *)
(***************************************************************************)
None == "None"

\* The members of the enum; the calls of a behaviour range over the first
\* NumDomains of this listing (registered and unregistered ones alternate).
DomainTypeSeq == <<"technology", "literature", "business", "arts",
                   "hard_science", "social_science", "code", "philosophy">>

DomainType == Range(DomainTypeSeq)

Domains == {DomainTypeSeq[i] : i \in 1..Min(NumDomains, Len(DomainTypeSeq))}

(***************************************************************************)
(* agents/agent_factory.py                                                 *)
(***************************************************************************)
DomainAgent == "DomainAgent"

\* Classes handed to register_agent in the explored behaviours.
AgentClasses == {"BusinessAgent", "ArtsAgent"}

\* The class attribute _agent_registry as the class body leaves it.
InitialRegistry ==
    [d \in {"technology", "business", "hard_science", "code"} |->
        CASE d = "technology" -> "TechnologyAgent"
          [] d = "business" -> "BusinessAgent"
          [] d = "hard_science" -> "ScienceAgent"
          [] d = "code" -> "CodeAgent"]

\* Variant: the fallback class is the abstract base, not the generic agent.
RegistryGetBase(reg, domain, default) ==
    IF domain \in DOMAIN reg THEN reg[domain] ELSE "BaseAgent"

\* dict.get(key, default)
RegistryGet(reg, domain, default) ==
    IF domain \in DOMAIN reg THEN reg[domain] ELSE default

\* cls._agent_registry[domain] = agent_class
RegistrySet(reg, domain, agent_class) ==
    [d \in (DOMAIN reg) \cup {domain} |->
        IF d = domain THEN agent_class ELSE reg[d]]

\* maxsize of the lru_cache around create_agent
create_agent_maxsize == 10

\* Position of `key` in the cache, 0 when it is not cached.
LruIndex(cache, key) ==
    IF \E i \in 1..Len(cache) : cache[i].key = key
    THEN CHOOSE i \in 1..Len(cache) : cache[i].key = key
    ELSE 0

Remove(s, i) == SubSeq(s, 1, i - 1) \o SubSeq(s, i + 1, Len(s))

\* A hit moves the entry to the most-recently-used end.
LruTouch(cache, key) ==
    LET i == LruIndex(cache, key) IN Append(Remove(cache, i), cache[i])

\* Variant: create_agent without its cache decorator keeps nothing.
LruStoreNothing(cache, key, value) == cache

\* A miss stores the new result, evicting the least recently used entry when
\* the cache already holds maxsize entries.
LruStore(cache, key, value) ==
    LET entry == [key |-> key, value |-> value] IN
    IF create_agent_maxsize = 0 THEN cache
    ELSE IF Len(cache) >= create_agent_maxsize THEN Append(Tail(cache), entry)
    ELSE Append(cache, entry)

\* Variant: the None check is missing.
create_agent_body_unchecked(reg, domain) ==
    [raised |-> None, agent_class |-> IF domain \in DOMAIN reg THEN reg[domain]
                                      ELSE "DomainAgent"]

\* The body of create_agent (the function lru_cache wraps): the exception it
\* raises, or the class it instantiates with `domain`.
create_agent_body(reg, domain) ==
    IF domain = None
    THEN [raised |-> "ValueError", agent_class |-> None]
    ELSE [raised |-> None, agent_class |-> RegistryGet(reg, domain, DomainAgent)]

\* agent_class(domain): BaseAgent.__init__ / DomainAgent.__init__ store the
\* domain on the new object.
NewAgent(agent_class, domain) == [class |-> agent_class, domain |-> domain]

NoCall == [op |-> "none", domain |-> None, raised |-> None, value |-> 0,
           hit |-> FALSE]

FactoryInit ==
    /\ agent_registry = InitialRegistry
    /\ create_agent_cache = <<>>
    /\ instances = <<>>
    /\ returned = [d \in Domains \cup {None} |-> {}]
    /\ register_calls = 0
    /\ last_call = NoCall

\* AgentFactory.register_agent(domain, agent_class)
register_agent(domain, agent_class) ==
    /\ register_calls < MaxRegisterCalls
    /\ register_calls' = register_calls + 1
    /\ agent_registry' = RegistrySet(agent_registry, domain, agent_class)
    /\ last_call' = [op |-> "register_agent", domain |-> domain,
                     raised |-> None, value |-> 0, hit |-> FALSE]
    /\ UNCHANGED <<create_agent_cache, instances, returned>>

\* AgentFactory.create_agent(domain), through its lru_cache wrapper
create_agent(domain) ==
    LET i == LruIndex(create_agent_cache, domain)
        body == create_agent_body(agent_registry, domain)
        id == Len(instances) + 1
    IN
    /\ IF i # 0
       THEN \* cache hit: the wrapped function does not run
            /\ create_agent_cache' = LruTouch(create_agent_cache, domain)
            /\ last_call' = [op |-> "create_agent", domain |-> domain,
                             raised |-> None,
                             value |-> create_agent_cache[i].value,
                             hit |-> TRUE]
            /\ returned' = [returned EXCEPT ![domain] =
                               @ \cup {create_agent_cache[i].value}]
            /\ UNCHANGED instances
       ELSE IF body.raised # None
       THEN \* the exception propagates, nothing is cached
            /\ last_call' = [op |-> "create_agent", domain |-> domain,
                             raised |-> body.raised, value |-> 0,
                             hit |-> FALSE]
            /\ UNCHANGED <<create_agent_cache, instances, returned>>
       ELSE /\ instances' = Append(instances, NewAgent(body.agent_class, domain))
            /\ create_agent_cache' = LruStore(create_agent_cache, domain, id)
            /\ last_call' = [op |-> "create_agent", domain |-> domain,
                             raised |-> None, value |-> id, hit |-> FALSE]
            /\ returned' = [returned EXCEPT ![domain] = @ \cup {id}]
    /\ UNCHANGED <<agent_registry, register_calls>>

RegisterAgent ==
    /\ \E d \in Domains, c \in AgentClasses : register_agent(d, c)
    /\ UNCHANGED <<ext_vars, cm_vars, co_vars, svc_vars, ag_vars, ip_vars>>

CreateAgent ==
    /\ \E d \in Domains \cup {None} : create_agent(d)
    /\ UNCHANGED <<ext_vars, cm_vars, co_vars, svc_vars, ag_vars, ip_vars>>

(***************************************************************************)
(* The agents, services and idea processor before any call.               *)
(***************************************************************************)
CompletionFailed == [kind |-> "failed"]

\* Placeholder for a collaborator that a call did not reach.
Unused == [kind |-> "unused"]

\* An agent object as its constructor leaves it.
FreshAgent == [analysis_cache |-> <<>>, cached_image |-> None]

Idea(concept, domain, keywords) ==
    [concept |-> concept, domain |-> domain, keywords |-> keywords,
     development_stage |-> "initial", context |-> None]

NoProcessCall ==
    [op |-> "none", idea |-> Idea("", None, <<>>), replies |-> <<>>,
     raised |-> None, value |-> <<>>, completions |-> 0,
     before |-> [ideas |-> {}, analysed |-> {}],
     fresh |-> [compared |-> FALSE, raised |-> None, value |-> <<>>]]

ServicesInit ==
    /\ agent_state = [d \in DomainType |-> FreshAgent]
    /\ diagram_cache = <<>>
    /\ db_ideas = 0
    /\ db_diagrams = <<>>

AgIdle ==
    /\ ag_domain = None
    /\ ag_calls = 0
    /\ ag_history = [ideas |-> {}, analysed |-> {}]
    /\ ag_last = NoProcessCall

NoDevelopCall ==
    [op |-> "none", concept |-> "", supporting |-> <<>>, classify |-> Unused,
     keywords |-> Unused, save |-> "unused", calls |-> <<>>, raised |-> None,
     value |-> <<>>, rows_before |-> 0]

IpIdle ==
    /\ ip_collaborative_agents = <<>>
    /\ ip_calls = 0
    /\ ip_last = NoDevelopCall

NoCollabCall ==
    [op |-> "none", primary |-> None, supporting |-> <<>>, raised |-> None,
     value |-> 0, existing |-> 0]

CollabIdle ==
    /\ coordinators = <<>>
    /\ collab_calls = 0
    /\ collab_last = NoCollabCall

Threads == 1..NumThreads

\* A worker thread that has not called create_agent.
NoThreadCall == [pc |-> "idle", domain |-> None, made |-> 0, value |-> 0]

ThreadsIdle == threads = [t \in Threads |-> NoThreadCall]

\* A worker thread that has not called _analyze_idea.
NoAnalysisCall == [pc |-> "idle", key |-> <<>>, raised |-> None, value |-> <<>>]

AnalysisIdle ==
    /\ an_threads = [t \in Threads |-> NoAnalysisCall]
    /\ an_completions = <<>>

\* SubtaskDelegator.__init__, and no create_subtasks call yet.
NoSubtasksCall ==
    [op |-> "none", keywords |-> <<>>, primary_domain |-> None,
     raised |-> None, value |-> <<>>]

SubtasksIdle ==
    /\ task_registry = <<>>
    /\ st_last = NoSubtasksCall

ExtIdle == CollabIdle /\ ThreadsIdle /\ AnalysisIdle /\ SubtasksIdle

CmIdle ==
    /\ responses = <<>>
    /\ threshold = 5
    /\ hash_order = <<>>
    /\ cm_pc = "idle"
    /\ cm_result = [op |-> "none", raised |-> None, value |-> <<>>]

CoIdle ==
    /\ co_agents = [primary |-> None, supporting |-> <<>>]
    /\ co_pc = "idle"
    /\ co_primary = <<>>
    /\ co_responses = <<>>
    /\ co_result = [op |-> "none", raised |-> None, value |-> <<>>]

Init ==
    FactoryInit /\ CmIdle /\ CoIdle /\ ServicesInit /\ AgIdle /\ IpIdle /\ ExtIdle

Next == RegisterAgent \/ CreateAgent

Spec == Init /\ [][Next]_vars

(***************************************************************************)
(* Properties of the factory (checked under Spec).                         *)
(***************************************************************************)
InstancesOf(d) == {i \in 1..Len(instances) : instances[i].domain = d}

\* C1: all create_agent calls with the same domain return one and the same
\* agent object, and at most one agent object is ever constructed per domain.
C1_OneInstancePerDomain ==
    \A d \in Domains :
        /\ Cardinality(returned[d]) <= 1
        /\ Cardinality(InstancesOf(d)) <= 1

\* A repeated create_agent(d) was answered while other domains have agents too.
C1_Witness ==
    /\ last_call.op = "create_agent"
    /\ last_call.hit
    /\ returned[last_call.domain] = {last_call.value}
    /\ Len(instances) >= 2

\* C2: create_agent(d) returns an instance of the class the registry binds d
\* to at the time of the call (the generic DomainAgent when d has no binding).
C2_CreateUsesLatestBinding ==
    (last_call.op = "create_agent" /\ last_call.raised = None)
        => instances[last_call.value].class =
               RegistryGet(agent_registry, last_call.domain, DomainAgent)

\* C3: for a domain that is no key of the registry, create_agent does not
\* raise and returns a DomainAgent whose domain field is that domain.
C3_UnregisteredGetsDomainAgent ==
    (/\ last_call.op = "create_agent"
     /\ last_call.domain # None
     /\ last_call.domain \notin DOMAIN agent_registry)
        => /\ last_call.raised = None
           /\ instances[last_call.value].class = DomainAgent
           /\ instances[last_call.value].domain = last_call.domain

\* create_agent was called for an unregistered domain, first call or repeat.
C3_Witness ==
    /\ last_call.op = "create_agent"
    /\ last_call.domain = "literature"
    /\ "literature" \notin DOMAIN agent_registry
    /\ last_call.raised = None
    /\ register_calls > 0

\* C4: create_agent(None) raises ValueError, returns no agent, and leaves the
\* registry, the cache and the set of constructed agents as they were.
C4_NoneDomainRaises ==
    [][(last_call'.op = "create_agent" /\ last_call'.domain = None)
          => /\ last_call'.raised = "ValueError"
             /\ last_call'.value = 0
             /\ UNCHANGED <<agent_registry, create_agent_cache, instances,
                             returned>>]_vars

\* create_agent(None) was called on a factory whose cache holds agents.
C4_Witness ==
    /\ last_call.op = "create_agent"
    /\ last_call.domain = None
    /\ last_call.raised = "ValueError"
    /\ Len(create_agent_cache) >= 2

(***************************************************************************)
(* core/idea.py                                                            *)
(***************************************************************************)
AgentResponse(sugg, ques, related, steps, tree, image) ==
    [suggestions |-> sugg, questions |-> ques, related_concepts |-> related,
     implementation_steps |-> steps, next_steps_tree |-> tree,
     concept_image |-> image]

(***************************************************************************)
(* agents/composition/consensus_manager.py: get_consensus_suggestions      *)
(***************************************************************************)
\* for response in responses: all_suggestions.extend(response.suggestions)
RECURSIVE PoolSuggestions(_)
PoolSuggestions(rs) ==
    IF rs = <<>> THEN <<>>
    ELSE Head(rs).suggestions \o PoolSuggestions(Tail(rs))

\* Counter.update for one element: an existing key keeps its position and
\* its count grows by one, a new key is appended with count 1.
CounterAdd(counter, elem) ==
    IF \E i \in 1..Len(counter) : counter[i].key = elem
    THEN [i \in 1..Len(counter) |->
             IF counter[i].key = elem
             THEN [key |-> elem, count |-> counter[i].count + 1]
             ELSE counter[i]]
    ELSE Append(counter, [key |-> elem, count |-> 1])

\* Counter(iterable), as the insertion-ordered sequence of its items()
RECURSIVE Counter(_)
Counter(pool) ==
    IF pool = <<>> THEN <<>>
    ELSE CounterAdd(Counter(SubSeq(pool, 1, Len(pool) - 1)), pool[Len(pool)])

\* Variant: `count > min_count` in place of `count >= min_count`.
ReachesMinCountStrict(count, n, tenths) == count * 10 > n * tenths

\* count >= len(responses) * threshold, with the threshold given in tenths
\* (for these sizes the float product compares with an integer count
\* exactly as the rational product does).
ReachesMinCount(count, n, tenths) == count * 10 >= n * tenths

RECURSIVE KeysReaching(_, _, _)
KeysReaching(counter, n, tenths) ==
    IF counter = <<>> THEN <<>>
    ELSE (IF ReachesMinCount(Head(counter).count, n, tenths)
          THEN <<Head(counter).key>> ELSE <<>>)
         \o KeysReaching(Tail(counter), n, tenths)

\* Variant: suggestions are returned in pool order without being counted once.
get_consensus_suggestions_pooled(rs, tenths) ==
    SelectSeq(PoolSuggestions(rs),
              LAMBDA s : ReachesMinCount(
                  Cardinality({i \in 1..Len(PoolSuggestions(rs)) :
                                   PoolSuggestions(rs)[i] = s}),
                  Len(rs), tenths))

\* ConsensusManager.get_consensus_suggestions(responses, threshold)
get_consensus_suggestions(rs, tenths) ==
    KeysReaching(Counter(PoolSuggestions(rs)), Len(rs), tenths)

\* Inputs of the bounded check.
SuggestionTexts == {"Use microservices", "Add caching"}

\* threshold values, in tenths: 0.0, 0.5 (the default), 0.6, 1.0, 1.2
Thresholds == {0, 5, 6, 10, 12}

SeqsUpTo(S, n) == UNION {[1..m -> S] : m \in 0..n}

SuggestionsOnly(list) == AgentResponse(list, <<>>, <<>>, <<>>, None, None)

\* Every list of exactly n responses that pools at most k suggestions.
RECURSIVE SuggestionInputs(_, _)
SuggestionInputs(n, k) ==
    IF n = 0 THEN {<<>>}
    ELSE UNION {{<<SuggestionsOnly(l)>> \o rest :
                    rest \in SuggestionInputs(n - 1, k - Len(l))} :
                l \in SeqsUpTo(SuggestionTexts, k)}

Returned(op, value) == [op |-> op, raised |-> None, value |-> value]

Raised(op, exception) == [op |-> op, raised |-> exception, value |-> <<>>]

NotCalled == [op |-> "none", raised |-> None, value |-> <<>>]

ConsensusInit ==
    /\ responses \in UNION {SuggestionInputs(n, MaxPool) : n \in 0..MaxResponses}
    /\ threshold \in Thresholds
    /\ hash_order = <<>>
    /\ cm_pc = "ready"
    /\ cm_result = NotCalled

GetConsensusSuggestions ==
    /\ cm_pc = "ready"
    /\ cm_result' = Returned("get_consensus_suggestions",
                             get_consensus_suggestions(responses, threshold))
    /\ cm_pc' = "done"
    /\ UNCHANGED <<ext_vars, responses, threshold, hash_order, factory_vars, co_vars,
                   svc_vars, ag_vars, ip_vars>>

InitConsensus ==
    /\ FactoryInit /\ ConsensusInit /\ CoIdle /\ ServicesInit /\ AgIdle /\ IpIdle
    /\ ExtIdle

SpecConsensus == InitConsensus /\ [][GetConsensusSuggestions]_vars

(***************************************************************************)
(* Properties of get_consensus_suggestions (checked under SpecConsensus).  *)
(***************************************************************************)
\* Number of places at which text s stands in the list.
Occurrences(list, s) == Cardinality({i \in 1..Len(list) : list[i] = s})

RECURSIVE TotalOccurrences(_, _)
TotalOccurrences(rs, s) ==
    IF rs = <<>> THEN 0
    ELSE Occurrences(Head(rs).suggestions, s) + TotalOccurrences(Tail(rs), s)

\* The responses whose suggestion list contains s.
Listing(rs, s) == {i \in 1..Len(rs) : Occurrences(rs[i].suggestions, s) > 0}

NoRepeats(list) == \A i, j \in 1..Len(list) : list[i] = list[j] => i = j

\* (response index, position) of the first occurrence of s.
FirstResponse(rs, s) == CHOOSE i \in Listing(rs, s) : \A j \in Listing(rs, s) : i <= j

FirstPlace(list, s) ==
    CHOOSE i \in 1..Len(list) : list[i] = s /\ \A j \in 1..(i - 1) : list[j] # s

OccursEarlier(rs, s, t) ==
    \/ FirstResponse(rs, s) < FirstResponse(rs, t)
    \/ /\ FirstResponse(rs, s) = FirstResponse(rs, t)
       /\ FirstPlace(rs[FirstResponse(rs, s)].suggestions, s)
              < FirstPlace(rs[FirstResponse(rs, t)].suggestions, t)

C6_ConsensusAcrossResponses ==
    cm_pc = "done" =>
        \A s \in Range(cm_result.value) :
            Cardinality(Listing(responses, s)) * 10 >= threshold * Len(responses)

MaxMergedSteps == 10

\* list(a_set) / iteration over a set of str: the order is not specified by
\* the language; `order` lists all step texts in the order this process
\* happens to iterate them.
ListOfSet(S, order) == SelectSeq(order, LAMBDA x : x \in S)

\* set.intersection(*map(set, lists)), for one or more lists
SetIntersection(lists) ==
    {x \in Range(lists[1]) : \A i \in 1..Len(lists) : x \in Range(lists[i])}

\* set.union(*map(set, lists)), for one or more lists
SetUnion(lists) == UNION {Range(lists[i]) : i \in 1..Len(lists)}

\* One step of a stable sort by key len: x goes behind every element that is
\* not longer.
InsertByLen(sorted, x) ==
    LET k == Cardinality({i \in 1..Len(sorted) : Len(sorted[i]) <= Len(x)})
    IN SubSeq(sorted, 1, k) \o <<x>> \o SubSeq(sorted, k + 1, Len(sorted))

RECURSIVE StableSortByLen(_)
StableSortByLen(list) ==
    IF list = <<>> THEN <<>>
    ELSE InsertByLen(StableSortByLen(SubSeq(list, 1, Len(list) - 1)),
                     list[Len(list)])

\* sorted(iterable, key=lambda x: len(x))
SortedByLen(list) == StableSortByLen(list)

\* Variant: the unique steps are taken from every response, primary included.
UniqueStepsOfAll(primary_steps, supporting_steps, common_steps) ==
    (Range(primary_steps) \cup SetUnion(supporting_steps)) \ common_steps

\* set.union(*map(set, supporting_steps)) - common_steps
UniqueSteps(primary_steps, supporting_steps, common_steps) ==
    SetUnion(supporting_steps) \ common_steps

\* ConsensusManager.merge_implementation_steps(responses)
merge_implementation_steps(rs, order) ==
    IF Len(rs) = 0
    THEN \* responses[0]
         Raised("merge_implementation_steps", "IndexError")
    ELSE
    LET primary_steps == rs[1].implementation_steps
        supporting_steps == [i \in 1..(Len(rs) - 1) |-> rs[i + 1].implementation_steps]
        common_steps == SetIntersection(<<primary_steps>> \o supporting_steps)
    IN
    IF Len(supporting_steps) = 0
    THEN \* set.union() called on the type without any argument
         Raised("merge_implementation_steps", "TypeError")
    ELSE
    LET unique_steps == UniqueSteps(primary_steps, supporting_steps, common_steps)
        final_steps == ListOfSet(common_steps, order)
                           \o SortedByLen(ListOfSet(unique_steps, order))
    IN Returned("merge_implementation_steps",
                SubSeq(final_steps, 1, Min(Len(final_steps), MaxMergedSteps)))

\* Inputs of the bounded check: twelve step texts, of lengths 1 1 2 2 ... 6 6.
StepTexts == <<"a", "b", "cc", "dd", "eee", "fff", "gggg", "hhhh",
               "iiiii", "jjjjj", "kkkkkk", "llllll">>

\* Four long lists of 10 to 12 steps; the short lists are over the first two
\* texts.
LongStepLists == {SubSeq(StepTexts, i, j) : i \in 1..2, j \in 11..12}

ShortStepTexts == {StepTexts[1], StepTexts[2]}

StepsOnly(list) == AgentResponse(<<>>, <<>>, <<>>, list, None, None)

Reverse(list) == [i \in 1..Len(list) |-> list[Len(list) + 1 - i]]

Rotate(list, k) == SubSeq(list, k + 1, Len(list)) \o SubSeq(list, 1, k)

HashOrders ==
    {Rotate(StepTexts, k) : k \in 0..MaxRotation}
        \cup {Rotate(Reverse(StepTexts), k) : k \in 0..MaxRotation}

\* The step lists a response can have at cost c: a long list or the empty
\* list at cost 0, a short list of c steps at cost c.
StepListsOfCost(c) ==
    IF c = 0 THEN LongStepLists \cup {<<>>} ELSE [1..c -> ShortStepTexts]

\* Every choice of n step lists that costs at most k together.
RECURSIVE MergeInputs(_, _)
MergeInputs(n, k) ==
    IF n = 0 THEN {<<>>}
    ELSE UNION {{<<l>> \o rest : l \in StepListsOfCost(c),
                                 rest \in MergeInputs(n - 1, k - c)} :
                c \in 0..k}

MergeInit ==
    /\ \E lists \in UNION {MergeInputs(n, MaxSteps) : n \in 0..MaxMergeResponses} :
           responses = [i \in 1..Len(lists) |-> StepsOnly(lists[i])]
    /\ threshold = 5
    /\ hash_order \in HashOrders
    /\ cm_pc = "ready"
    /\ cm_result = NotCalled

MergeImplementationSteps ==
    /\ cm_pc = "ready"
    /\ cm_result' = merge_implementation_steps(responses, hash_order)
    /\ cm_pc' = "done"
    /\ UNCHANGED <<ext_vars, responses, threshold, hash_order, factory_vars, co_vars,
                   svc_vars, ag_vars, ip_vars>>

InitMerge ==
    /\ FactoryInit /\ MergeInit /\ CoIdle /\ ServicesInit /\ AgIdle /\ IpIdle
    /\ ExtIdle

SpecMerge == InitMerge /\ [][MergeImplementationSteps]_vars

(***************************************************************************)
(* Properties of merge_implementation_steps (checked under SpecMerge).     *)
(***************************************************************************)
StepsOf(i) == Range(responses[i].implementation_steps)

\* The steps every response lists.
CommonOfAll == {s \in Range(StepTexts) : \A i \in 1..Len(responses) : s \in StepsOf(i)}

\* The steps some supporting response lists and not every response lists.
SupportingOnly ==
    {s \in Range(StepTexts) : \E i \in 2..Len(responses) : s \in StepsOf(i)}
        \ CommonOfAll

\* C7: for one or more responses the merge returns at most 10 steps, the
\* steps common to all responses before all others.
C7_MergeBoundedCommonFirst ==
    (cm_pc = "done" /\ Len(responses) >= 1) =>
        /\ cm_result.raised = None
        /\ Len(cm_result.value) <= 10
        /\ \A i, j \in 1..Len(cm_result.value) :
               (cm_result.value[i] \in CommonOfAll
                    /\ cm_result.value[j] \notin CommonOfAll) => i < j

\* C8: with at least one supporting response the result is the first 10
\* entries of the common steps followed by the supporting-only steps in
\* ascending length; it repeats no step, holds only input steps and holds no
\* step that only the primary response lists.
C8_MergeCommonThenUniqueByLength ==
    (cm_pc = "done" /\ Len(responses) >= 2) =>
        LET res == cm_result.value
            common == CommonOfAll
            unique == SupportingOnly
            nc == Cardinality(common)
            nu == Cardinality(unique)
        IN
        /\ cm_result.raised = None
        /\ Len(res) = Min(nc + nu, 10)
        /\ NoRepeats(res)
        /\ \A i \in 1..Len(res) :
               IF i <= nc THEN res[i] \in common ELSE res[i] \in unique
        /\ \A i, j \in (nc + 1)..Len(res) : i < j => Len(res[i]) <= Len(res[j])
        /\ \A s \in unique \ Range(res) :
               \A i \in (nc + 1)..Len(res) : Len(res[i]) <= Len(s)
        /\ Range(res) \subseteq UNION {StepsOf(i) : i \in 1..Len(responses)}
        /\ \A s \in StepsOf(1) :
               (\A i \in 2..Len(responses) : s \notin StepsOf(i)) => s \notin Range(res)

\* Three responses: one common step, a step of the primary alone, and more
\* supporting-only steps than the limit leaves room for.
C8_Witness ==
    /\ cm_pc = "done"
    /\ Len(responses) = 3
    /\ CommonOfAll = {"b"}
    /\ "a" \in StepsOf(1) /\ "a" \notin StepsOf(2) \cup StepsOf(3)
    /\ Cardinality(SupportingOnly) = 10
    /\ Len(cm_result.value) = 10
    /\ cm_result.value[1] = "b"
    /\ "llllll" \in Range(cm_result.value)
    /\ "kkkkkk" \notin Range(cm_result.value)

(***************************************************************************)
(* agents/composition/agent_coordinator.py                                 *)
(***************************************************************************)
\* What the class body of AgentCoordinator and its __init__ define.
AgentCoordinatorAttrs ==
    {"__init__", "process_complex_idea", "_merge_responses",
     "primary_agent", "supporting_agents"}

\* self.<name> raises AttributeError for a name the object does not have.
HasAttr(name) == name \in AgentCoordinatorAttrs

\* AgentCoordinator._merge_responses(primary, supporting): its first
\* statement looks up self._get_consensus_suggestions.
merge_responses(primary, supporting) ==
    CASE ~HasAttr("_get_consensus_suggestions") ->
             Raised("process_complex_idea", "AttributeError")

\* Outcomes of agent.process_idea(idea) in the explored behaviours: the
\* completion service fails, or the agent returns one of these responses.
SampleResponses ==
    {AgentResponse(<<>>, <<>>, <<>>, <<>>, None, None),
     AgentResponse(<<"Use microservices", "Add caching">>, <<"Why?">>,
                   <<"queues">>, <<"a", "b">>, "diagram", "image"),
     AgentResponse(<<"Add caching", "Add caching">>, <<"Why?", "Why?">>,
                   <<"queues", "queues">>, <<"b", "b">>, "diagram", None)}

CoordInit ==
    /\ co_agents \in [primary : Domains,
                      supporting : SeqsUpTo(Domains, MaxSupporting)]
    /\ co_pc = "primary"
    /\ co_primary = <<>>
    /\ co_responses = <<>>
    /\ co_result = NotCalled

\* primary_response = self.primary_agent.process_idea(idea)
ProcessPrimary ==
    /\ co_pc = "primary"
    /\ \/ \E r \in SampleResponses :
              /\ co_primary' = <<r>>
              /\ co_pc' = "supporting"
              /\ UNCHANGED co_result
       \/ /\ co_result' = Raised("process_complex_idea", "CompletionFailed")
          /\ co_pc' = "done"
          /\ UNCHANGED co_primary
    /\ UNCHANGED <<ext_vars, co_agents, co_responses, factory_vars, cm_vars, svc_vars,
                   ag_vars, ip_vars>>

\* [agent.process_idea(idea) for agent in self.supporting_agents], one agent
ProcessSupporting ==
    /\ co_pc = "supporting"
    /\ Len(co_responses) < Len(co_agents.supporting)
    /\ \/ \E r \in SampleResponses :
              /\ co_responses' = Append(co_responses, r)
              /\ UNCHANGED <<co_pc, co_result>>
       \/ /\ co_result' = Raised("process_complex_idea", "CompletionFailed")
          /\ co_pc' = "done"
          /\ UNCHANGED co_responses
    /\ UNCHANGED <<ext_vars, co_agents, co_primary, factory_vars, cm_vars, svc_vars,
                   ag_vars, ip_vars>>

\* return self._merge_responses(primary_response, supporting_responses)
MergeResponses ==
    /\ co_pc = "supporting"
    /\ Len(co_responses) = Len(co_agents.supporting)
    /\ co_result' = merge_responses(co_primary[1], co_responses)
    /\ co_pc' = "done"
    /\ UNCHANGED <<ext_vars, co_agents, co_primary, co_responses, factory_vars, cm_vars,
                   svc_vars, ag_vars, ip_vars>>

NextCoord == ProcessPrimary \/ ProcessSupporting \/ MergeResponses

InitCoord ==
    /\ FactoryInit /\ CmIdle /\ CoordInit /\ ServicesInit /\ AgIdle /\ IpIdle
    /\ ExtIdle

SpecCoord == InitCoord /\ [][NextCoord]_vars

(***************************************************************************)
(* Properties of process_complex_idea (checked under SpecCoord).           *)
(***************************************************************************)
\* C9: on a coordinator without supporting agents, process_complex_idea
\* succeeds whenever the primary agent's process_idea succeeded, and returns
\* a response equal to the primary response in every field.
C9_NoSupportingIsPrimary ==
    (/\ co_pc = "done"
     /\ co_agents.supporting = <<>>
     /\ co_primary # <<>>)
        => /\ co_result.raised = None
           /\ co_result.value = co_primary[1]

(***************************************************************************)
(* services/openai_service.py: create_completion returns a text or raises. *)
(* A text is kept as what the parsers of the agents see of it.             *)
(***************************************************************************)
\* One piece of paragraph.split('.'), stripped: its text, len(text) and the
\* indicator stems of the agents that occur in text.lower().
Sentence(text, len, stems) == [text |-> text, len |-> len, stems |-> stems]

\* One stripped, non-empty line of response.splitlines(): `header` is
\* line.split(':')[0].lower() when the line holds a ':' (None otherwise),
\* `bullet` is line[2:] when the line starts with '- ' (None otherwise).
Line(header, bullet) == [header |-> header, bullet |-> bullet]

\* A narrative answer: paragraphs separated by blank lines, each one line.
NarrativeParagraphs ==
    << <<Sentence("A garden that waters itself", 27, {})>>,
       <<Sentence("Implement the system with sensor data", 37,
                  {"implement", "system", "data"}),
         Sentence("Keep it small", 13, {})>>,
       <<Sentence("Which component design survives frost data", 42,
                  {"component", "design", "data"})>>,
       <<Sentence("Irrigation systems use similar design methods", 45,
                  {"system", "design", "method"})>>,
       <<Sentence("A novel design method for soil data", 35,
                  {"design", "method", "data"})>> >>

NarrativeText(n) ==
    [kind |-> "text",
     paragraphs |-> SubSeq(NarrativeParagraphs, 1, n),
     lines |-> [i \in 1..n |-> Line(None, None)]]

\* An answer in the SUGGESTIONS: / QUESTIONS: / RELATED_CONCEPTS: layout the
\* generic agent asks for; its three blocks are three paragraphs. The model
\* answered with six suggestions where the prompt asked for five.
SectionedText ==
    [kind |-> "text",
     paragraphs |->
        << <<Sentence("SUGGESTIONS: - Add a rain sensor - Use drip lines - Mulch the beds - Add a valve - Log the flow - Shade the tank", 113, {})>>,
           <<Sentence("QUESTIONS: - Who refills the tank", 33, {})>>,
           <<Sentence("RELATED_CONCEPTS: - Hydroponics", 31, {})>> >>,
     lines |->
        <<Line("suggestions", None), Line(None, "Add a rain sensor"),
          Line(None, "Use drip lines"), Line(None, "Mulch the beds"),
          Line(None, "Add a valve"), Line(None, "Log the flow"),
          Line(None, "Shade the tank"), Line("questions", None),
          Line(None, "Who refills the tank"),
          Line("related_concepts", None), Line(None, "Hydroponics")>>]

\* Answers to the implementation prompt: `lines` are the stripped non-empty
\* lines, `sections` the pieces of response.split('\n\n') with whether they
\* hold a ':', the stripped text after the first ':' and its length.
PhasedSteps ==
    [kind |-> "text",
     lines |-> <<"Phase 1: build the prototype", "Phase 2: plant the beds">>,
     sections |-> <<[colon |-> TRUE,
                     body |-> "build the prototype Phase 2: plant the beds",
                     len |-> 43]>>]

PlainSteps ==
    [kind |-> "text",
     lines |-> <<"Build the prototype", "Plant the beds">>,
     sections |-> <<[colon |-> FALSE, body |-> "", len |-> 0]>>]

StepsTexts == {PhasedSteps, PlainSteps}

(***************************************************************************)
(* agents/domain_agent.py and agents/specialized_agents/*.py: the parsers  *)
(***************************************************************************)
ParagraphAgents == {"TechnologyAgent", "BusinessAgent", "ScienceAgent", "CodeAgent"}

\* The word lists of the _extract_key_points methods.
IndicatorStems(cls) ==
    CASE cls = "TechnologyAgent" ->
             {"technolog", "system", "develop", "implement", "component", "design"}
      [] cls = "ScienceAgent" ->
             {"research", "experiment", "method", "analysis", "data",
              "hypothesis", "theory"}
      [] cls = "CodeAgent" ->
             {"design", "interface", "component", "pattern", "architecture",
              "user", "code", "implementation"}

\* _extract_key_points(text): the sentences that pass the filter, at most 5.
extract_key_points(cls, paragraph) ==
    LET Keep(s) == IF cls = "BusinessAgent" THEN s.len > 10
                   ELSE s.len > 15 /\ s.stems \cap IndicatorStems(cls) # {}
        points == SelectSeq(paragraph, Keep)
    IN [i \in 1..Min(5, Len(points)) |-> points[i].text]

\* DomainAgent._parse_analysis_response: the loop over the lines.
RECURSIVE parse_sections(_, _, _)
parse_sections(lines, current_section, sections) ==
    IF lines = <<>> THEN sections
    ELSE LET line == Head(lines) IN
         IF line.header # None
         THEN parse_sections(Tail(lines),
                             IF line.header \in DOMAIN sections
                             THEN line.header ELSE current_section,
                             sections)
         ELSE IF line.bullet # None /\ current_section # None
         THEN parse_sections(Tail(lines), current_section,
                             [sections EXCEPT ![current_section] =
                                 Append(@, line.bullet)])
         ELSE parse_sections(Tail(lines), current_section, sections)

\* _parse_analysis_response(response) of each agent class. Python indexes
\* paragraphs from 0: paragraphs[k] is the (k+1)-th paragraph.
parse_analysis_response(cls, text) ==
    IF cls = DomainAgent
    THEN Returned("_parse_analysis_response",
                  parse_sections(text.lines, None,
                                 [suggestions |-> <<>>, questions |-> <<>>,
                                  related_concepts |-> <<>>]))
    ELSE LET paragraphs == text.paragraphs
             highest == IF cls = "BusinessAgent" THEN 3 ELSE 4
         IN
         IF Len(paragraphs) <= highest
         THEN Raised("_parse_analysis_response", "IndexError")
         ELSE IF cls = "BusinessAgent"
         THEN Returned("_parse_analysis_response",
                  [suggestions |-> extract_key_points(cls, paragraphs[2]),
                   questions |-> extract_key_points(cls, paragraphs[3]),
                   related_concepts |-> extract_key_points(cls, paragraphs[4])])
         ELSE Returned("_parse_analysis_response",
                  [suggestions |-> extract_key_points(cls, paragraphs[2]),
                   questions |-> extract_key_points(cls, paragraphs[3]),
                   related_concepts |-> extract_key_points(cls, paragraphs[4]),
                   innovations |-> extract_key_points(cls, paragraphs[5])])

\* CodeAgent._parse_implementation_response
parse_implementation_response(text) ==
    LET Keep(section) == section.colon /\ section.body # "" /\ section.len > 10
        steps == SelectSeq(text.sections, Keep)
    IN [i \in 1..Min(8, Len(steps)) |-> steps[i].body]

\* _generate_implementation_steps(idea, analysis)
generate_implementation_steps(cls, reply) ==
    IF reply.kind = "failed"
    THEN Raised("_generate_implementation_steps", "CompletionFailed")
    ELSE Returned("_generate_implementation_steps",
                  IF cls = "CodeAgent" THEN parse_implementation_response(reply)
                  ELSE reply.lines)

(***************************************************************************)
(* The caches: lru_cache(maxsize=100) around _analyze_idea_cached and      *)
(* around DiagramService.generate_diagram.                                 *)
(***************************************************************************)
analysis_cache_maxsize == 100

diagram_cache_maxsize == 100

\* A miss of an lru_cache with the given maxsize stores the new result.
LruInsert(cache, key, value, maxsize) ==
    LET entry == [key |-> key, value |-> value] IN
    IF maxsize = 0 THEN cache
    ELSE IF Len(cache) >= maxsize THEN Append(Tail(cache), entry)
    ELSE Append(cache, entry)

\* The keywords of the explored ideas, in the order of Python's str.
KeywordOrder == <<"iot", "water">>

KeywordRank(k) == CHOOSE i \in 1..Len(KeywordOrder) : KeywordOrder[i] = k

\* sorted(idea.keywords)
RECURSIVE sorted(_)
sorted(keywords) ==
    IF keywords = <<>> THEN <<>>
    ELSE LET k == Head(keywords)
             rest == sorted(Tail(keywords))
             n == Cardinality({i \in 1..Len(rest) :
                                  KeywordRank(rest[i]) < KeywordRank(k)})
         IN SubSeq(rest, 1, n) \o <<k>> \o SubSeq(rest, n + 1, Len(rest))

\* Variant: the keywords are sorted in place (idea.keywords.sort()).
sorted_argument_in_place(keywords) ==
    sorted(keywords)

\* The list handed to sorted(), as the call leaves it: sorted() builds a new
\* list and does not touch its argument.
sorted_argument(keywords) ==
    keywords

\* The arguments _analyze_idea hands to _analyze_idea_cached: the concept and
\* ','.join(sorted(idea.keywords)).
AnalysisKey(idea) == <<idea.concept, sorted(idea.keywords)>>

\* Variant: the cache also keeps the outcome of a call that raised.
analyze_idea_cached_keeping_failures(cls, cache, key, reply, parsed) ==
    IF cls # DomainAgent /\ LruIndex(cache, key) # 0
    THEN [raised |-> None, value |-> cache[LruIndex(cache, key)].value,
          cache |-> LruTouch(cache, key), completions |-> 0]
    ELSE IF reply.kind = "failed" \/ parsed.raised # None
    THEN [raised |-> IF reply.kind = "failed" THEN "CompletionFailed"
                     ELSE parsed.raised,
          value |-> <<>>,
          cache |-> IF cls = DomainAgent THEN cache
                    ELSE LruInsert(cache, key, <<>>, analysis_cache_maxsize),
          completions |-> 1]
    ELSE [raised |-> None, value |-> parsed.value,
          cache |-> IF cls = DomainAgent THEN cache
                    ELSE LruInsert(cache, key, parsed.value,
                                   analysis_cache_maxsize),
          completions |-> 1]

\* _analyze_idea_cached(concept, keywords_str) behind its lru_cache, key
\* being its arguments and parsed what _parse_analysis_response makes of the
\* reply if the completion is asked and answers.
analyze_idea_cached(cls, cache, key, reply, parsed) ==
    IF cls # DomainAgent /\ LruIndex(cache, key) # 0
    THEN [raised |-> None, value |-> cache[LruIndex(cache, key)].value,
          cache |-> LruTouch(cache, key), completions |-> 0]
    ELSE IF reply.kind = "failed"
    THEN [raised |-> "CompletionFailed", value |-> <<>>, cache |-> cache,
          completions |-> 1]
    ELSE IF parsed.raised # None
    THEN [raised |-> parsed.raised, value |-> <<>>, cache |-> cache,
          completions |-> 1]
    ELSE [raised |-> None, value |-> parsed.value,
          cache |-> IF cls = DomainAgent THEN cache
                    ELSE LruInsert(cache, key, parsed.value,
                                   analysis_cache_maxsize),
          completions |-> 1]

\* Variant: a failing analysis completion yields an empty analysis.
analyze_idea_placeholder(cls, cache, idea, reply) ==
    LET parsed == parse_analysis_response(cls, reply) IN
    IF reply.kind = "failed" \/ parsed.raised # None
    THEN [raised |-> None,
          value |-> [suggestions |-> <<>>, questions |-> <<>>,
                     related_concepts |-> <<>>],
          cache |-> cache, completions |-> 1]
    ELSE [raised |-> None, value |-> parsed.value, cache |-> cache,
          completions |-> 1]

\* self._analyze_idea(idea): the cached analysis of the specialised agents,
\* the plain one of DomainAgent. `completions` counts the calls of
\* create_completion it makes.
analyze_idea(cls, cache, idea, reply) ==
    analyze_idea_cached(cls, cache, AnalysisKey(idea), reply,
                        parse_analysis_response(cls, reply))

(***************************************************************************)
(* services/diagram_service.py, services/image_service.py                  *)
(***************************************************************************)
\* DiagramService.generate_diagram(idea, gpt_response), first item of the
\* pair it returns; `render` is what graphviz does if it is run.
generate_diagram(cache, idea_concept, gpt_response, render) ==
    LET key == <<idea_concept, gpt_response>>
        i == LruIndex(cache, key)
        img_data == IF render = "RenderFailed" THEN None ELSE render
    IN
    IF i # 0
    THEN [value |-> cache[i].value, cache |-> LruTouch(cache, key),
          rendered |-> FALSE]
    ELSE [value |-> img_data,
          cache |-> LruInsert(cache, key, img_data, diagram_cache_maxsize),
          rendered |-> TRUE]

\* _generate_next_steps_diagram(idea, steps) of BaseAgent and of DomainAgent
generate_next_steps_diagram(cache, idea, reply, render) ==
    IF reply.kind = "failed"
    THEN [value |-> None, cache |-> cache, rendered |-> FALSE]
    ELSE generate_diagram(cache, idea.concept, reply.body, render)

\* ImageService.generate_image(prompt); `image` is what the pipeline does if
\* it is run.
generate_image(cached_image, image) ==
    IF cached_image # None
    THEN [value |-> cached_image, cached_image |-> cached_image, ran |-> FALSE]
    ELSE IF image = "PipelineFailed"
    THEN [value |-> None, cached_image |-> cached_image, ran |-> TRUE]
    ELSE [value |-> image, cached_image |-> image, ran |-> TRUE]

\* Attributes of a BaseAgent object (set in __init__ or defined in the class).
BaseAgentAttrs ==
    {"domain", "openai_service", "diagram_service", "image_service",
     "data_manager", "completion_params", "_create_completion",
     "process_idea", "_generate_next_steps_diagram", "chat_response",
     "_generate_image_prompt", "_generate_concept_image"}

\* Attributes of an OpenAIService object.
OpenAIServiceAttrs == {"client", "create_completion"}

\* The concept-image part of process_idea, per agent class.
generate_concept_image(cls, cached_image, prompt_reply, image) ==
    LET g == generate_image(cached_image, image)
        Fail(e) == [raised |-> e, value |-> None, cached_image |-> cached_image,
                    used |-> {"image_prompt"}]
        Done(r) == [raised |-> None, value |-> r.value,
                    cached_image |-> r.cached_image,
                    used |-> {"image_prompt"} \cup
                             (IF r.ran THEN {"image"} ELSE {})]
    IN
    CASE cls = "TechnologyAgent" ->
             \* _generate_image_prompt re-raises; generate_image returns None
             IF prompt_reply.kind = "failed" THEN Fail("CompletionFailed")
             ELSE Done(g)
      [] cls = "BusinessAgent" ->
             \* BaseAgent._generate_concept_image: its handler reads self.logger
             IF prompt_reply.kind = "failed"
             THEN IF "logger" \in BaseAgentAttrs
                  THEN [raised |-> None, value |-> None,
                        cached_image |-> cached_image,
                        used |-> {"image_prompt"}]
                  ELSE Fail("AttributeError")
             ELSE Done(g)
      [] cls = "ScienceAgent" ->
             \* ScienceAgent._generate_concept_image calls
             \* self.openai_service.create_image and re-raises
             IF prompt_reply.kind = "failed" THEN Fail("CompletionFailed")
             ELSE IF "create_image" \in OpenAIServiceAttrs
             THEN Done([value |-> image, cached_image |-> cached_image,
                        ran |-> TRUE])
             ELSE Fail("AttributeError")
      [] OTHER ->
             \* CodeAgent and DomainAgent build the response without an image
             [raised |-> None, value |-> None, cached_image |-> cached_image,
              used |-> {}]

(***************************************************************************)
(* data/data_manager.py: tables ideas and diagrams                         *)
(***************************************************************************)
\* The save_idea / save_diagram calls at the end of process_idea; `save` is
\* what sqlite does with them. cursor.lastrowid of the insert into ideas is
\* the number of rows the table then has (rows are never deleted).
save_response(cls, ideas_rows, diagram_rows, response, save) ==
    LET idea_id == ideas_rows + 1
        tree_row == IF response.next_steps_tree # None
                    THEN <<[idea_id |-> idea_id,
                            image_data |-> response.next_steps_tree]>>
                    ELSE <<>>
        image_row == IF cls # "CodeAgent" /\ response.concept_image # None
                     THEN <<[idea_id |-> idea_id,
                             image_data |-> response.concept_image]>>
                     ELSE <<>>
    IN
    IF cls \notin {"TechnologyAgent", "ScienceAgent", "CodeAgent"}
    THEN [raised |-> None, db_ideas |-> ideas_rows, db_diagrams |-> diagram_rows,
          used |-> {}]
    ELSE IF save # "ok"
    THEN [raised |-> save, db_ideas |-> ideas_rows, db_diagrams |-> diagram_rows,
          used |-> {"save"}]
    ELSE [raised |-> None, db_ideas |-> idea_id,
          db_diagrams |-> diagram_rows \o tree_row \o image_row,
          used |-> {"save"}]

\* DataManager.get_diagram(idea_id): the most recent row of table diagrams
\* with that idea_id, None if there is none.
get_diagram(diagram_rows, idea_id) ==
    LET rows == {i \in 1..Len(diagram_rows) : diagram_rows[i].idea_id = idea_id}
    IN IF rows = {} THEN None
       ELSE diagram_rows[CHOOSE i \in rows : \A j \in rows : j <= i]

(***************************************************************************)
(* process_idea of TechnologyAgent, BusinessAgent, ScienceAgent, CodeAgent *)
(* and DomainAgent                                                         *)
(***************************************************************************)
\* The end of process_idea: a, s, d and g are what the analysis, the
\* implementation steps, the diagram and the concept image came to; the
\* response is built and saved unless one of them raised.
build_response(cls, agent, dcache, ideas_rows, diagram_rows, save, a, s, d, g) ==
    LET response == AgentResponse(a.value.suggestions, a.value.questions,
                                  a.value.related_concepts, s.value, d.value,
                                  g.value)
        p == save_response(cls, ideas_rows, diagram_rows, response, save)
        used_a == IF a.completions > 0 THEN {"analysis"} ELSE {}
        used_d == used_a \cup {"steps", "diagram"} \cup
                  (IF d.rendered THEN {"render"} ELSE {})
        Outcome(raised, value, cached_image, dc, rows, diagrams, used) ==
            [raised |-> raised, value |-> value,
             agent |-> [analysis_cache |-> a.cache,
                        cached_image |-> cached_image],
             diagram_cache |-> dc, db_ideas |-> rows, db_diagrams |-> diagrams,
             used |-> used, completions |-> a.completions]
    IN
    IF a.raised # None
    THEN Outcome(a.raised, <<>>, agent.cached_image, dcache, ideas_rows,
                 diagram_rows, used_a)
    ELSE IF s.raised # None
    THEN Outcome(s.raised, <<>>, agent.cached_image, dcache, ideas_rows,
                 diagram_rows, used_a \cup {"steps"})
    ELSE IF g.raised # None
    THEN Outcome(g.raised, <<>>, g.cached_image, d.cache, ideas_rows,
                 diagram_rows, used_d \cup g.used)
    ELSE IF p.raised # None
    THEN Outcome(p.raised, <<>>, g.cached_image, d.cache, ideas_rows,
                 diagram_rows, used_d \cup g.used \cup p.used)
    ELSE Outcome(None, response, g.cached_image, d.cache, p.db_ideas,
                 p.db_diagrams, used_d \cup g.used \cup p.used)

\* agent.process_idea(idea) on an agent of class cls in state agent, with
\* the replies r of its collaborators: what it raises or returns, the state
\* it leaves, and which replies it consumed.
process_idea(cls, agent, dcache, ideas_rows, diagram_rows, idea, r) ==
    build_response(cls, agent, dcache, ideas_rows, diagram_rows, r.save,
        analyze_idea(cls, agent.analysis_cache, idea, r.analysis),
        generate_implementation_steps(cls, r.steps),
        generate_next_steps_diagram(dcache, idea, r.diagram, r.render),
        generate_concept_image(cls, agent.cached_image, r.image_prompt,
                               r.image))

(***************************************************************************)
(* Inputs of the explored process_idea calls                               *)
(***************************************************************************)
\* Concept and keywords of the ideas handed to process_idea: one idea, the
\* same with its keywords in another order, and a different one.
IdeaInputs ==
    {<<"smart garden", <<"iot", "water">> >>,
     <<"smart garden", <<"water", "iot">> >>,
     <<"solar kettle", <<"iot", "water">> >>}

AnalysisReplies ==
    {CompletionFailed, NarrativeText(2), NarrativeText(5), SectionedText}

DiagramReplies == {CompletionFailed, [kind |-> "text", body |-> "step 1 -> step 2"]}

PromptReplies == {CompletionFailed, [kind |-> "text", body |-> "a garden"]}

ImageReplies == {"PipelineFailed", "image.png", "other.png"}

\* The replies of the collaborators to one process_idea call on an agent of
\* class cls in the given state: a collaborator the call does not reach
\* (after a failure, on a cache hit, or because the class does not use it)
\* gives none.
ReplyChoices(cls, agent, dcache, idea) ==
    LET none == [analysis |-> Unused, steps |-> Unused, diagram |-> Unused,
                 render |-> "unused", image_prompt |-> Unused,
                 image |-> "unused", save |-> "unused"]
        analyses ==
            IF cls # DomainAgent
               /\ LruIndex(agent.analysis_cache, AnalysisKey(idea)) # 0
            THEN {Unused} ELSE AnalysisReplies
        Renders(d) ==
            IF d.kind = "failed" \/ LruIndex(dcache, <<idea.concept, d.body>>) # 0
            THEN {"unused"} ELSE {"RenderFailed", "diagram.png"}
        Prompts ==
            IF cls \in {"TechnologyAgent", "BusinessAgent", "ScienceAgent"}
            THEN PromptReplies ELSE {Unused}
        Images(p) ==
            IF cls \in {"TechnologyAgent", "BusinessAgent"} /\ p.kind = "text"
               /\ agent.cached_image = None
            THEN ImageReplies ELSE {"unused"}
        Saves(p) ==
            IF (cls = "TechnologyAgent" /\ p.kind = "text") \/ cls = "CodeAgent"
            THEN {"ok"} ELSE {"unused"}
        After(a) ==
            {r \in [analysis : {a}, steps : StepsTexts, diagram : DiagramReplies,
                    render : {"unused", "RenderFailed", "diagram.png"},
                    image_prompt : Prompts,
                    image : {"unused"} \cup ImageReplies,
                    save : {"unused", "ok"}] :
                /\ r.render \in Renders(r.diagram)
                /\ r.image \in Images(r.image_prompt)
                /\ r.save \in Saves(r.image_prompt)}
    IN
    UNION {IF analyze_idea(cls, agent.analysis_cache, idea, a).raised # None
           THEN {[none EXCEPT !.analysis = a]}
           ELSE {[none EXCEPT !.analysis = a, !.steps = CompletionFailed]}
                \cup After(a) :
           a \in analyses}

\* The replies a call consumed; a collaborator it did not reach is Unused.
Consumed(r, used) ==
    [f \in DOMAIN r |->
        IF f \in used THEN r[f]
        ELSE IF f \in {"render", "image", "save"} THEN "unused" ELSE Unused]

\* Domains of the agents under test: the four registered ones and one that
\* create_agent answers with a DomainAgent.
AgentDomains == {"technology", "business", "hard_science", "code", "arts"}

\* The class of the agent create_agent returns for a domain.
AgentClassOf(domain) == RegistryGet(InitialRegistry, domain, DomainAgent)

AgentInit ==
    /\ ag_domain \in AgentDomains
    /\ ag_calls = 0
    /\ ag_history = [ideas |-> {}, analysed |-> {}]
    /\ ag_last = NoProcessCall

\* The agent has processed ideas before, all of them with another concept
\* or other keywords than `idea`.
OnlyOtherIdeas(history, idea) ==
    /\ history.ideas # {}
    /\ \A other \in history.ideas : AnalysisKey(other) # AnalysisKey(idea)

\* What the image pipeline answers in the run on a new agent object, where
\* it is asked even if the agent under test answered from _cached_image.
FreshImageReplies(cls, idea, history, r) ==
    IF /\ OnlyOtherIdeas(history, idea)
       /\ cls \in {"TechnologyAgent", "BusinessAgent"}
       /\ r.image_prompt.kind = "text"
       /\ r.image = "unused"
    THEN ImageReplies ELSE {r.image}

\* One call agent.process_idea(idea) on the agent of ag_domain. After other
\* ideas, `fresh` records the same call with the same replies on a new agent
\* object of the same class.
ProcessIdea ==
    /\ ag_calls < MaxProcessCalls
    /\ \E input \in IdeaInputs :
        \E r \in ReplyChoices(AgentClassOf(ag_domain), agent_state[ag_domain],
                              diagram_cache,
                              Idea(input[1], ag_domain, input[2])) :
         \E pipeline \in FreshImageReplies(AgentClassOf(ag_domain),
                                           Idea(input[1], ag_domain, input[2]),
                                           ag_history, r) :
          LET cls == AgentClassOf(ag_domain)
              idea == Idea(input[1], ag_domain, input[2])
              out == process_idea(cls, agent_state[ag_domain], diagram_cache,
                                  db_ideas, db_diagrams, idea, r)
              fresh == process_idea(cls, FreshAgent, diagram_cache, db_ideas,
                                    db_diagrams, idea,
                                    [r EXCEPT !.image = pipeline])
          IN
          /\ agent_state' = [agent_state EXCEPT ![ag_domain] = out.agent]
          /\ diagram_cache' = out.diagram_cache
          /\ db_ideas' = out.db_ideas
          /\ db_diagrams' = out.db_diagrams
          /\ ag_history' =
                [ideas |-> ag_history.ideas \cup {idea},
                 analysed |-> ag_history.analysed \cup
                     (IF "steps" \in out.used THEN {AnalysisKey(idea)}
                      ELSE {})]
          /\ ag_last' = [op |-> "process_idea", idea |-> idea,
                         replies |-> Consumed(r, out.used),
                         raised |-> out.raised, value |-> out.value,
                         completions |-> out.completions,
                         before |-> ag_history,
                         fresh |-> IF OnlyOtherIdeas(ag_history, idea)
                                   THEN [compared |-> TRUE,
                                         raised |-> fresh.raised,
                                         value |-> fresh.value]
                                   ELSE NoProcessCall.fresh]
    /\ ag_calls' = ag_calls + 1
    /\ UNCHANGED <<ext_vars, ag_domain, factory_vars, cm_vars, co_vars, ip_vars>>

InitAgent ==
    /\ FactoryInit /\ CmIdle /\ CoIdle /\ ServicesInit /\ AgentInit /\ IpIdle
    /\ ExtIdle

SpecAgent == InitAgent /\ [][ProcessIdea]_vars

(***************************************************************************)
(* core/idea_processor.py                                                  *)
(***************************************************************************)
\* An answer of the classifier: its text without surrounding whitespace and
\* in lower case, whether it came padded, and whether in other case.
ClassifierText(body, padded, upper) ==
    [kind |-> "text", body |-> body, padded |-> padded, upper |-> upper]

\* str.strip() and str.lower()
strip(text) == [text EXCEPT !.padded = FALSE]

lower(text) == [text EXCEPT !.upper = FALSE]

\* DomainType(value): the member with that value, ValueError if there is none
DomainTypeOf(text) ==
    IF ~text.padded /\ ~text.upper /\ text.body \in DomainType
    THEN Returned("DomainType", text.body)
    ELSE Raised("DomainType", "ValueError")

\* Variant: a failed or unusable classification falls back to technology.
classify_domain_default(reply) ==
    IF reply.kind = "failed" THEN Returned("_classify_domain", "technology")
    ELSE LET d == DomainTypeOf(lower(strip(reply))) IN
         IF d.raised # None THEN Returned("_classify_domain", "technology")
         ELSE d

\* IdeaProcessor._classify_domain(concept)
classify_domain(reply) ==
    IF reply.kind = "failed" THEN Raised("_classify_domain", "CompletionFailed")
    ELSE DomainTypeOf(lower(strip(reply)))

\* IdeaProcessor._extract_keywords(concept): the pieces between commas,
\* each stripped
extract_keywords(reply) ==
    IF reply.kind = "failed" THEN Raised("_extract_keywords", "CompletionFailed")
    ELSE Returned("_extract_keywords",
                  [i \in 1..Len(reply.pieces) |-> strip(reply.pieces[i]).body])

\* sorted(supporting_domains): DomainType is a plain Enum whose members
\* define no '<', so the first comparison raises.
sorted_domains(domains) ==
    IF Len(domains) <= 1 THEN Returned("sorted", domains)
    ELSE Raised("sorted", "TypeError")

\* IdeaProcessor._get_collaborative_agent(primary_domain, supporting_domains)
\* with AgentFactory.create_collaborative_agent and AgentCoordinator.__init__
get_collaborative_agent(collaborative_agents, primary_domain, supporting_domains) ==
    LET key_tail == sorted_domains(supporting_domains)
        cache_key == <<primary_domain, key_tail.value>>
        coordinator == [primary |-> primary_domain,
                        supporting |-> supporting_domains]
    IN
    IF key_tail.raised # None
    THEN [raised |-> key_tail.raised, agent |-> coordinator,
          collaborative_agents |-> collaborative_agents]
    ELSE IF cache_key \in DOMAIN collaborative_agents
    THEN [raised |-> None, agent |-> collaborative_agents[cache_key],
          collaborative_agents |-> collaborative_agents]
    ELSE [raised |-> None, agent |-> coordinator,
          collaborative_agents |->
              [k \in (DOMAIN collaborative_agents) \cup {cache_key} |->
                  IF k = cache_key THEN coordinator
                  ELSE collaborative_agents[k]]]

\* The shared objects a call works on.
World(agents, dcache, ideas_rows, diagram_rows) ==
    [agent_state |-> agents, diagram_cache |-> dcache, db_ideas |-> ideas_rows,
     db_diagrams |-> diagram_rows]

\* The Idea object as agent.process_idea(idea) leaves it. The caching agents
\* build the cache key from sorted(idea.keywords) before anything else; every
\* other use of the idea, in every agent, only reads its attributes.
idea_after_process_idea(cls, idea) ==
    IF cls = DomainAgent THEN idea
    ELSE [idea EXCEPT !.keywords = sorted_argument(idea.keywords)]

RECURSIVE process_in_order(_, _, _, _, _)

\* The agent of domain d answered `out`: the call is logged, and the
\* remaining agents are called unless it raised.
process_next(d, domains, rs, idea, world, acc, out) ==
    LET after == World([world.agent_state EXCEPT ![d] = out.agent],
                       out.diagram_cache, out.db_ideas, out.db_diagrams)
        left == idea_after_process_idea(AgentClassOf(d), idea)
        call == [op |-> "process_idea", agent |-> d,
                 replies |-> Consumed(Head(rs), out.used),
                 raised |-> out.raised, idea |-> left]
    IN
    IF out.raised # None
    THEN [raised |-> out.raised, responses |-> acc.responses,
          calls |-> Append(acc.calls, call), world |-> after, idea |-> left]
    ELSE process_in_order(Tail(domains), Tail(rs), left, after,
                          [responses |-> Append(acc.responses, out.value),
                           calls |-> Append(acc.calls, call)])

\* agent.process_idea(idea) for the agents of `domains`, one after the other,
\* rs[i] being the replies to the i-th of them; stops at the first that
\* raises. acc holds the responses and the log of the calls made so far.
process_in_order(domains, rs, idea, world, acc) ==
    IF domains = <<>>
    THEN [raised |-> None, responses |-> acc.responses, calls |-> acc.calls,
          world |-> world, idea |-> idea]
    ELSE process_next(Head(domains), domains, rs, idea, world, acc,
             process_idea(AgentClassOf(Head(domains)),
                          world.agent_state[Head(domains)],
                          world.diagram_cache, world.db_ideas,
                          world.db_diagrams, idea, Head(rs)))

\* The end of process_complex_idea: p is what the calls of the agents came
\* to; their responses are merged if all of them returned.
merge_processed(p) ==
    LET merged == merge_responses(Head(p.responses), Tail(p.responses)) IN
    IF p.raised # None
    THEN [raised |-> p.raised, value |-> <<>>, calls |-> p.calls,
          world |-> p.world, idea |-> p.idea]
    ELSE [raised |-> merged.raised, value |-> merged.value,
          calls |-> Append(p.calls,
                           [op |-> "_merge_responses", agent |-> "coordinator",
                            replies |-> <<>>, raised |-> merged.raised]),
          world |-> p.world, idea |-> p.idea]

\* AgentCoordinator.process_complex_idea(idea) on the agents of the factory
process_complex_idea(coordinator, rs, idea, world) ==
    merge_processed(
        process_in_order(<<coordinator.primary>> \o coordinator.supporting,
                         rs, idea, world, [responses |-> <<>>, calls |-> <<>>]))

\* The end of develop_idea: c is the coordinator lookup and response what
\* the agent or the coordinator came to; the idea is saved and the result
\* dict built unless one of them raised.
save_and_return(supporting_domains, save, world, collaborative_agents, idea, c, response) ==
    LET idea_id == response.world.db_ideas + 1
        cagents == IF supporting_domains # <<>> THEN c.collaborative_agents
                   ELSE collaborative_agents
        Outcome(raised, value, calls, after, cached_coordinators, used) ==
            [raised |-> raised, value |-> value, calls |-> calls,
             world |-> after, collaborative_agents |-> cached_coordinators,
             used |-> used]
    IN
    IF supporting_domains # <<>> /\ c.raised # None
    THEN Outcome(c.raised, <<>>, <<>>, world, collaborative_agents,
                 {"classify", "keywords"})
    ELSE IF response.raised # None
    THEN Outcome(response.raised, <<>>, response.calls, response.world,
                 cagents, {"classify", "keywords"})
    ELSE IF save # "ok"
    THEN Outcome(save, <<>>, response.calls, response.world,
                 cagents, {"classify", "keywords", "save"})
    ELSE Outcome(None,
                 [id |-> idea_id,
                  idea |-> [concept |-> response.idea.concept,
                            domain |-> response.idea.domain,
                            keywords |-> response.idea.keywords,
                            supporting_domains |-> supporting_domains],
                  development |-> IF supporting_domains # <<>>
                                  THEN response.value
                                  ELSE Head(response.responses)],
                 response.calls,
                 [response.world EXCEPT !.db_ideas = idea_id],
                 cagents, {"classify", "keywords", "save"})

\* develop_idea from the structured idea on: the agent or the coordinator
\* is looked up and called.
develop_structured(supporting_domains, r, world, collaborative_agents, idea, c) ==
    save_and_return(supporting_domains, r.save, world, collaborative_agents,
        idea, c,
        IF supporting_domains # <<>>
        THEN process_complex_idea(c.agent, r.agents, idea, world)
        ELSE process_in_order(<<idea.domain>>, r.agents, idea, world,
                              [responses |-> <<>>, calls |-> <<>>]))

\* _create_structured_idea(raw_concept) and what follows it, domain and
\* keywords being what _classify_domain and _extract_keywords came to.
create_structured_idea(raw_concept, supporting_domains, r, world, collaborative_agents, domain, keywords) ==
    IF domain.raised # None
    THEN [raised |-> domain.raised, value |-> <<>>, calls |-> <<>>,
          world |-> world, collaborative_agents |-> collaborative_agents,
          used |-> {"classify"}]
    ELSE IF keywords.raised # None
    THEN [raised |-> keywords.raised, value |-> <<>>, calls |-> <<>>,
          world |-> world, collaborative_agents |-> collaborative_agents,
          used |-> {"classify", "keywords"}]
    ELSE develop_structured(supporting_domains, r, world, collaborative_agents,
             Idea(raw_concept, domain.value, keywords.value),
             get_collaborative_agent(collaborative_agents, domain.value,
                                     supporting_domains))

\* IdeaProcessor.develop_idea(raw_concept, supporting_domains) with the
\* replies r of its collaborators.
develop_idea(raw_concept, supporting_domains, r, world, collaborative_agents) ==
    create_structured_idea(raw_concept, supporting_domains, r, world,
                           collaborative_agents, classify_domain(r.classify),
                           extract_keywords(r.keywords))

(***************************************************************************)
(* Inputs of the explored develop_idea calls                               *)
(***************************************************************************)
ClassifierReplies ==
    {CompletionFailed,
     ClassifierText("technology", TRUE, TRUE),
     ClassifierText("hard_science", FALSE, FALSE),
     ClassifierText("philosophy", TRUE, FALSE),
     ClassifierText("writing", FALSE, FALSE)}

KeywordReplies ==
    {CompletionFailed,
     [kind |-> "text",
      pieces |-> <<ClassifierText("water", FALSE, FALSE),
                   ClassifierText("iot", TRUE, FALSE)>>]}

SupportingChoices == {<<>>, <<"business">>, <<"code", "business">>}

\* Replies to one agent: all collaborators work, or one completion fails.
AllWork ==
    [analysis |-> NarrativeText(5),
     steps |-> PhasedSteps,
     diagram |-> [kind |-> "text", body |-> "step 1 -> step 2"],
     render |-> "diagram.png",
     image_prompt |-> [kind |-> "text", body |-> "a garden"],
     image |-> "image.png",
     save |-> "ok"]

ProcessorReplies ==
    {AllWork,
     [AllWork EXCEPT !.analysis = CompletionFailed],
     [AllWork EXCEPT !.steps = CompletionFailed],
     [AllWork EXCEPT !.diagram = CompletionFailed]}

\* Whether develop_idea gets as far as calling an agent.
ReachesAgents(supporting, classify, keywords) ==
    /\ classify_domain(classify).raised = None
    /\ extract_keywords(keywords).raised = None
    /\ sorted_domains(supporting).raised = None

\* The replies to the participating agents, primary first; they are not
\* asked when the call fails before it reaches them.
AgentReplyChoices(supporting, classify, keywords) ==
    IF ReachesAgents(supporting, classify, keywords)
    THEN [1..(1 + Len(supporting)) -> ProcessorReplies]
    ELSE {[i \in 1..(1 + Len(supporting)) |-> AllWork]}

\* What sqlite does with the save_idea of develop_idea.
SaveReplyChoices(supporting, classify, keywords) ==
    IF ReachesAgents(supporting, classify, keywords)
    THEN {"ok", "OperationalError"} ELSE {"ok"}

\* One call processor.develop_idea(concept, supporting_domains)
DevelopIdea ==
    /\ ip_calls < MaxDevelopCalls
    /\ \E supporting \in SupportingChoices, classify \in ClassifierReplies,
          keywords \in KeywordReplies :
        \E agents \in AgentReplyChoices(supporting, classify, keywords),
           save \in SaveReplyChoices(supporting, classify, keywords) :
          LET r == [classify |-> classify, keywords |-> keywords,
                    agents |-> agents, save |-> save]
              out == develop_idea("smart garden", supporting, r,
                                  World(agent_state, diagram_cache, db_ideas,
                                        db_diagrams),
                                  ip_collaborative_agents)
          IN
          /\ agent_state' = out.world.agent_state
          /\ diagram_cache' = out.world.diagram_cache
          /\ db_ideas' = out.world.db_ideas
          /\ db_diagrams' = out.world.db_diagrams
          /\ ip_collaborative_agents' = out.collaborative_agents
          /\ ip_last' = [op |-> "develop_idea", concept |-> "smart garden",
                         supporting |-> supporting,
                         classify |-> classify,
                         keywords |-> IF "keywords" \in out.used THEN keywords
                                      ELSE Unused,
                         save |-> IF "save" \in out.used THEN save
                                  ELSE "unused",
                         calls |-> out.calls, raised |-> out.raised,
                         value |-> out.value, rows_before |-> db_ideas]
    /\ ip_calls' = ip_calls + 1
    /\ UNCHANGED <<ext_vars, factory_vars, cm_vars, co_vars, ag_vars>>

InitProcessor ==
    /\ FactoryInit /\ CmIdle /\ CoIdle /\ ServicesInit /\ AgIdle /\ IpIdle
    /\ ExtIdle

SpecProcessor == InitProcessor /\ [][DevelopIdea]_vars

(***************************************************************************)
(* Properties of the merge of process_complex_idea (checked under          *)
(* SpecCoord).                                                             *)
(***************************************************************************)
\* Every agent of the coordinator has returned and the merge has run.
MergeRan ==
    /\ co_pc = "done"
    /\ co_primary # <<>>
    /\ Len(co_responses) = Len(co_agents.supporting)

\* C11: the response process_complex_idea returns has the related_concepts,
\* next_steps_tree and concept_image of the primary agent's response,
\* whatever the supporting agents returned.
C11_MergedKeepsPrimaryFields ==
    MergeRan
        => /\ co_result.raised = None
           /\ co_result.value.related_concepts = co_primary[1].related_concepts
           /\ co_result.value.next_steps_tree = co_primary[1].next_steps_tree
           /\ co_result.value.concept_image = co_primary[1].concept_image

RECURSIVE PoolQuestions(_)
PoolQuestions(rs) ==
    IF rs = <<>> THEN <<>>
    ELSE Head(rs).questions \o PoolQuestions(Tail(rs))

\* C20: the questions of the merged response are those whose pooled
\* occurrence count over the primary and supporting responses is at least
\* threshold * len(responses) (threshold 0.5), in first-occurrence order.
C20_QuestionsByConsensus ==
    MergeRan
        => /\ co_result.raised = None
           /\ co_result.value.questions =
                  KeysReaching(Counter(PoolQuestions(co_primary \o co_responses)),
                               Len(co_primary \o co_responses), 5)

(***************************************************************************)
(* Properties of process_idea (checked under SpecAgent).                   *)
(***************************************************************************)
\* C13: when an agent has analysed an idea, a later process_idea on the same
\* agent with the same concept and the same keywords in any order makes no
\* completion call for the analysis step.
C13_SecondCallReusesAnalysis ==
    (/\ ag_last.op = "process_idea"
     /\ AnalysisKey(ag_last.idea) \in ag_last.before.analysed)
        => ag_last.completions = 0

\* C14: if the completion of the analysis step or of the implementation
\* steps fails, process_idea raises and returns no response, for every class
\* of agent.
C14_CompletionFailurePropagates ==
    (/\ ag_last.op = "process_idea"
     /\ \/ ag_last.replies.analysis.kind = "failed"
        \/ ag_last.replies.steps.kind = "failed")
        => /\ ag_last.raised # None
           /\ ag_last.value = <<>>

\* The generic agent failed in its implementation-step completion after an
\* earlier call on it had succeeded.
C14_Witness ==
    /\ ag_last.op = "process_idea"
    /\ AgentClassOf(ag_domain) = DomainAgent
    /\ ag_last.before.analysed # {}
    /\ ag_last.replies.analysis.kind = "text"
    /\ ag_last.replies.steps.kind = "failed"
    /\ ag_last.raised = "CompletionFailed"

\* C15: if rendering the diagram or generating the concept image fails while
\* the analysis, the implementation steps and every other collaborator
\* succeed, process_idea returns a response whose next_steps_tree
\* (respectively concept_image) is null and whose steps are those generated,
\* for every class of agent the factory creates.
C15_VisualFailureTolerated ==
    (/\ ag_last.op = "process_idea"
     /\ ag_last.replies.steps.kind = "text"
     /\ ag_last.replies.diagram.kind = "text"
     /\ ag_last.replies.image_prompt.kind # "failed"
     /\ \/ ag_last.replies.render = "RenderFailed"
        \/ ag_last.replies.image = "PipelineFailed")
        => /\ ag_last.raised = None
           /\ ag_last.replies.render = "RenderFailed"
                  => ag_last.value.next_steps_tree = None
           /\ ag_last.replies.image = "PipelineFailed"
                  => ag_last.value.concept_image = None
           /\ ag_last.value.implementation_steps =
                  generate_implementation_steps(AgentClassOf(ag_domain),
                                                ag_last.replies.steps).value

\* C16: in every agent class that takes the categories from the paragraphs
\* of the analysis text, a text of fewer than 5 paragraphs is parsed without
\* an index error.
C16_ShortAnalysisParses ==
    (/\ ag_last.op = "process_idea"
     /\ AgentClassOf(ag_domain) \in ParagraphAgents
     /\ ag_last.replies.analysis.kind = "text"
     /\ Len(ag_last.replies.analysis.paragraphs) < 5)
        => ag_last.raised # "IndexError"

\* C19: after the agent has processed other ideas only, process_idea
\* raises or returns exactly what the same call with the same replies raises
\* or returns on a new agent object.
C19_NoStateBetweenIdeas ==
    ag_last.fresh.compared
        => /\ ag_last.raised = ag_last.fresh.raised
           /\ ag_last.raised = None => ag_last.value = ag_last.fresh.value

(***************************************************************************)
(* Properties of develop_idea (checked under SpecProcessor).               *)
(***************************************************************************)
\* The classifier answered with a domain tag and the keywords were extracted.
IdeaStructured ==
    /\ ip_last.op = "develop_idea"
    /\ classify_domain(ip_last.classify).raised = None
    /\ ip_last.keywords.kind = "text"

\* No collaborator of the i-th agent call failed.
CallWorked(i) ==
    /\ ip_last.calls[i].raised \in {None, "AttributeError"}
    /\ \A f \in {"analysis", "steps", "diagram", "image_prompt"} :
           ip_last.calls[i].replies[f].kind # "failed"
    /\ ip_last.calls[i].replies.render # "RenderFailed"
    /\ ip_last.calls[i].replies.image # "PipelineFailed"

\* C12: develop_idea with supporting domains S calls process_idea of the
\* primary agent, then of the agent of each domain of S once, in the order
\* of S, and merges after all of them returned (when each of them returns).
C12_PrimaryThenSupportingInOrder ==
    (/\ IdeaStructured
     /\ ip_last.supporting # <<>>
     /\ \A i \in 1..Len(ip_last.calls) :
            ip_last.calls[i].op = "process_idea" => ip_last.calls[i].raised = None)
        => [i \in 1..Len(ip_last.calls) |-> ip_last.calls[i].agent] =
               <<classify_domain(ip_last.classify).value>> \o ip_last.supporting
                   \o <<"coordinator">>

\* C17: without supporting domains, when the classifier yields D and every
\* collaborator succeeds, develop_idea returns a result with idea.domain D,
\* with the non-empty steps of D's agent and with the id (> 0) given by the
\* save_idea of this call.
C17_DevelopIdeaResult ==
    (/\ IdeaStructured
     /\ ip_last.supporting = <<>>
     /\ ip_last.save # "OperationalError"
     /\ \A i \in 1..Len(ip_last.calls) : CallWorked(i))
        => /\ ip_last.raised = None
           /\ ip_last.value.idea.domain = classify_domain(ip_last.classify).value
           /\ ip_last.value.development.implementation_steps =
                  generate_implementation_steps(
                      AgentClassOf(ip_last.value.idea.domain),
                      ip_last.calls[1].replies.steps).value
           /\ ip_last.value.development.implementation_steps # <<>>
           /\ ip_last.value.id > ip_last.rows_before
           /\ ip_last.value.id = db_ideas

\* C18: if the completion of the classification, of the keyword extraction,
\* or of the analysis or the implementation steps of a participating agent
\* fails, develop_idea raises and returns no result.
C18_CompletionFailureFailsDevelopIdea ==
    (/\ ip_last.op = "develop_idea"
     /\ \/ ip_last.classify.kind = "failed"
        \/ ip_last.keywords.kind = "failed"
        \/ \E i \in 1..Len(ip_last.calls) :
               /\ ip_last.calls[i].op = "process_idea"
               /\ \/ ip_last.calls[i].replies.analysis.kind = "failed"
                  \/ ip_last.calls[i].replies.steps.kind = "failed")
        => /\ ip_last.raised # None
           /\ ip_last.value = <<>>

\* The supporting agent of a collaborative call failed in its
\* implementation-step completion after the primary agent had returned.
C18_Witness ==
    /\ ip_last.op = "develop_idea"
    /\ ip_last.supporting = <<"business">>
    /\ Len(ip_last.calls) = 2
    /\ ip_last.calls[1].raised = None
    /\ ip_last.calls[2].replies.steps.kind = "failed"
    /\ ip_last.raised = "CompletionFailed"
    /\ ip_calls = 2

(***************************************************************************)
(* AgentFactory.create_collaborative_agent and AgentCoordinator.__init__   *)
(***************************************************************************)
\* AgentFactory.create_agent(domain) through its lru_cache wrapper, as a
\* function of the factory's state: what it raises or returns and the cache
\* and the agent objects it leaves.
create_agent_call(reg, cache, insts, domain) ==
    IF LruIndex(cache, domain) # 0
    THEN [raised |-> None, value |-> cache[LruIndex(cache, domain)].value,
          cache |-> LruTouch(cache, domain), instances |-> insts]
    ELSE IF create_agent_body(reg, domain).raised # None
    THEN [raised |-> create_agent_body(reg, domain).raised, value |-> 0,
          cache |-> cache, instances |-> insts]
    ELSE [raised |-> None, value |-> Len(insts) + 1,
          cache |-> LruStore(cache, domain, Len(insts) + 1),
          instances |-> Append(insts,
                               NewAgent(create_agent_body(reg, domain).agent_class,
                                        domain))]

RECURSIVE create_agents(_, _, _, _, _)

\* create_agent(domain) answered `out`; the remaining domains follow unless
\* it raised.
create_agents_next(reg, domains, acc, out) ==
    IF out.raised # None
    THEN [raised |-> out.raised, agents |-> acc, cache |-> out.cache,
          instances |-> out.instances]
    ELSE create_agents(reg, out.cache, out.instances, Tail(domains),
                       Append(acc, out.value))

\* [AgentFactory.create_agent(domain) for domain in domains]
create_agents(reg, cache, insts, domains, acc) ==
    IF domains = <<>>
    THEN [raised |-> None, agents |-> acc, cache |-> cache, instances |-> insts]
    ELSE create_agents_next(reg, domains, acc,
                            create_agent_call(reg, cache, insts, Head(domains)))

\* Variant: the factory keeps the coordinators it built and answers a
\* repeated call with the one built for the same arguments.
new_coordinator_memoized(coords, primary_domain, supporting_domains, made) ==
    LET Same(i) == /\ coords[i].primary_domain = primary_domain
                   /\ coords[i].supporting_domains = supporting_domains
        known == {i \in 1..Len(coords) : Same(i)}
    IN
    IF made.raised # None
    THEN [raised |-> made.raised, value |-> 0, coordinators |-> coords,
          cache |-> made.cache, instances |-> made.instances]
    ELSE IF known # {}
    THEN [raised |-> None, value |-> CHOOSE i \in known : TRUE,
          coordinators |-> coords, cache |-> made.cache,
          instances |-> made.instances]
    ELSE [raised |-> None, value |-> Len(coords) + 1,
          coordinators |->
              Append(coords, [primary_domain |-> primary_domain,
                              supporting_domains |-> supporting_domains,
                              primary_agent |-> Head(made.agents),
                              supporting_agents |-> Tail(made.agents)]),
          cache |-> made.cache, instances |-> made.instances]

\* AgentCoordinator(primary_domain, supporting_domains): `made` is what the
\* create_agent calls of __init__ came to; the new object holds the agents
\* they returned.
new_coordinator(coords, primary_domain, supporting_domains, made) ==
    IF made.raised # None
    THEN [raised |-> made.raised, value |-> 0, coordinators |-> coords,
          cache |-> made.cache, instances |-> made.instances]
    ELSE [raised |-> None, value |-> Len(coords) + 1,
          coordinators |->
              Append(coords, [primary_domain |-> primary_domain,
                              supporting_domains |-> supporting_domains,
                              primary_agent |-> Head(made.agents),
                              supporting_agents |-> Tail(made.agents)]),
          cache |-> made.cache, instances |-> made.instances]

\* AgentFactory.create_collaborative_agent(primary_domain, supporting_domains)
create_collaborative_agent(coords, reg, cache, insts, primary_domain, supporting_domains) ==
    new_coordinator(coords, primary_domain, supporting_domains,
        create_agents(reg, cache, insts,
                      <<primary_domain>> \o supporting_domains, <<>>))

\* The arguments (primary_domain, supporting_domains) of the explored calls.
CollabInputs ==
    {<<"technology", <<>> >>,
     <<"technology", <<"business", "technology">> >>,
     <<"literature", <<"technology">> >>,
     <<None, <<"business">> >>}

\* The identities returned, added to the history of create_agent's results.
ReturnedWith(history, coordinator) ==
    [d \in DOMAIN history |->
        history[d]
        \cup (IF coordinator.primary_domain = d
              THEN {coordinator.primary_agent} ELSE {})
        \cup {coordinator.supporting_agents[i] :
                 i \in {j \in 1..Len(coordinator.supporting_agents) :
                           coordinator.supporting_domains[j] = d}}]

\* One call AgentFactory.create_collaborative_agent(primary, supporting)
CreateCollaborativeAgent ==
    /\ collab_calls < MaxCollabCalls
    /\ \E input \in CollabInputs :
         LET primary == input[1]
             supporting == input[2]
             out == create_collaborative_agent(coordinators, agent_registry,
                                               create_agent_cache, instances,
                                               primary, supporting)
         IN
         /\ coordinators' = out.coordinators
         /\ create_agent_cache' = out.cache
         /\ instances' = out.instances
         /\ returned' = IF out.raised = None
                        THEN ReturnedWith(returned, out.coordinators[out.value])
                        ELSE returned
         /\ collab_last' = [op |-> "create_collaborative_agent",
                            primary |-> primary, supporting |-> supporting,
                            raised |-> out.raised, value |-> out.value,
                            existing |-> Len(coordinators)]
    /\ collab_calls' = collab_calls + 1
    /\ UNCHANGED <<agent_registry, register_calls, last_call, cm_vars, co_vars,
                   svc_vars, ag_vars, ip_vars, threads, an_vars, st_vars>>

NextCollab == CreateAgent \/ CreateCollaborativeAgent

InitCollab ==
    /\ FactoryInit /\ CmIdle /\ CoIdle /\ ServicesInit /\ AgIdle /\ IpIdle
    /\ ExtIdle

SpecCollab == InitCollab /\ [][NextCollab]_vars

(***************************************************************************)
(* Properties of create_collaborative_agent (checked under SpecCollab).    *)
(***************************************************************************)
\* The agent object create_agent(d) returns in the current state.
CreateAgentNow(d) ==
    create_agent_call(agent_registry, create_agent_cache, instances, d).value

\* C21: create_collaborative_agent returns a new coordinator object on every
\* call; the primary_agent of every coordinator is the object
\* create_agent(primary) returns, and its i-th supporting agent the object
\* create_agent(supporting[i]) returns.
C21_NewCoordinatorSharedAgents ==
    /\ (collab_last.op = "create_collaborative_agent" /\ collab_last.raised = None)
           => /\ collab_last.value > collab_last.existing
              /\ collab_last.value = Len(coordinators)
    /\ \A i \in 1..Len(coordinators) :
           /\ coordinators[i].primary_agent =
                  CreateAgentNow(coordinators[i].primary_domain)
           /\ \A j \in 1..Len(coordinators[i].supporting_domains) :
                  coordinators[i].supporting_agents[j] =
                      CreateAgentNow(coordinators[i].supporting_domains[j])

\* Two calls with equal arguments returned two coordinators that hold the
\* same agent objects, the primary domain being a supporting domain too.
C21_Witness ==
    /\ Len(coordinators) = 2
    /\ coordinators[1].primary_domain = coordinators[2].primary_domain
    /\ coordinators[1].supporting_domains = coordinators[2].supporting_domains
    /\ Len(coordinators[1].supporting_domains) = 2
    /\ coordinators[1].primary_domain = coordinators[1].supporting_domains[2]
    /\ coordinators[1].primary_agent = coordinators[2].primary_agent
    /\ coordinators[1].supporting_agents = coordinators[2].supporting_agents

(***************************************************************************)
(* create_agent called from several worker threads (gui/gui.py starts one  *)
(* thread per submission; IdeaProcessor.agents calls create_agent in it).  *)
(* The lru_cache wrapper looks the key up, calls the wrapped function      *)
(* without holding any lock, and then stores the result; each of the three *)
(* is one step.                                                            *)
(***************************************************************************)
\* Domains the threads ask for: a registered one and one without binding.
ThreadDomains == {"technology", "literature"}

\* The wrapper's lookup for create_agent(d) in thread t: on a hit the cached
\* object is returned.
CacheLookup ==
    \E t \in Threads, d \in ThreadDomains :
        /\ threads[t].pc = "idle"
        /\ IF LruIndex(create_agent_cache, d) # 0
           THEN /\ threads' = [threads EXCEPT ![t] =
                       [pc |-> "done", domain |-> d, made |-> 0,
                        value |-> create_agent_cache[
                                      LruIndex(create_agent_cache, d)].value]]
                /\ create_agent_cache' = LruTouch(create_agent_cache, d)
                /\ returned' = [returned EXCEPT ![d] = @ \cup
                       {create_agent_cache[LruIndex(create_agent_cache, d)].value}]
           ELSE /\ threads' = [threads EXCEPT ![t] =
                       [pc |-> "miss", domain |-> d, made |-> 0, value |-> 0]]
                /\ UNCHANGED <<create_agent_cache, returned>>
        /\ UNCHANGED <<agent_registry, instances, register_calls, last_call,
                       cm_vars, co_vars, svc_vars, ag_vars, ip_vars, collab_vars,
                       an_vars, st_vars>>

\* After a miss thread t runs the body of create_agent: agent_class(domain)
\* with the class the registry binds the domain to at that moment.
ConstructAgent ==
    \E t \in Threads :
        /\ threads[t].pc = "miss"
        /\ instances' = Append(instances,
               NewAgent(create_agent_body(agent_registry,
                                          threads[t].domain).agent_class,
                        threads[t].domain))
        /\ threads' = [threads EXCEPT ![t].pc = "made",
                                      ![t].made = Len(instances) + 1]
        /\ UNCHANGED <<agent_registry, create_agent_cache, returned,
                       register_calls, last_call, cm_vars, co_vars, svc_vars,
                       ag_vars, ip_vars, collab_vars, an_vars, st_vars>>

\* Back in the wrapper, thread t stores its result unless the key was cached
\* during the call, and returns its own result either way.
CacheStore ==
    \E t \in Threads :
        /\ threads[t].pc = "made"
        /\ create_agent_cache' =
               IF LruIndex(create_agent_cache, threads[t].domain) # 0
               THEN create_agent_cache
               ELSE LruStore(create_agent_cache, threads[t].domain,
                             threads[t].made)
        /\ threads' = [threads EXCEPT ![t].pc = "done",
                                      ![t].value = threads[t].made]
        /\ returned' = [returned EXCEPT ![threads[t].domain] =
                           @ \cup {threads[t].made}]
        /\ UNCHANGED <<agent_registry, instances, register_calls, last_call,
                       cm_vars, co_vars, svc_vars, ag_vars, ip_vars, collab_vars,
                       an_vars, st_vars>>

NextThreads == RegisterAgent \/ CacheLookup \/ ConstructAgent \/ CacheStore

InitThreads ==
    /\ FactoryInit /\ CmIdle /\ CoIdle /\ ServicesInit /\ AgIdle /\ IpIdle
    /\ ExtIdle

SpecThreads == InitThreads /\ [][NextThreads]_vars

(***************************************************************************)
(* Properties of concurrent create_agent calls (checked under SpecThreads) *)
(***************************************************************************)
\* C22: under every interleaving of create_agent(d) calls from different
\* threads and register_agent calls, the registry stays a map from domains
\* to agent classes, one agent object is constructed per domain, and all
\* callers of create_agent(d) receive that object.
C22_ConcurrentCreateOneInstance ==
    /\ DOMAIN agent_registry \subseteq DomainType
    /\ \A d \in DOMAIN agent_registry :
           agent_registry[d] \in AgentClasses
               \cup {InitialRegistry[r] : r \in DOMAIN InitialRegistry}
    /\ \A d \in Domains :
           /\ Cardinality(InstancesOf(d)) <= 1
           /\ \A t, u \in Threads :
                  (/\ threads[t].pc = "done" /\ threads[u].pc = "done"
                   /\ threads[t].domain = d /\ threads[u].domain = d)
                      => threads[t].value = threads[u].value

(***************************************************************************)
(* _analyze_idea called on one agent from several worker threads. The      *)
(* lru_cache wrapper of _analyze_idea_cached looks the key up, calls the   *)
(* wrapped function (the completion and its parse) without holding any     *)
(* lock, and then stores the result; each of the three is one step.        *)
(***************************************************************************)
\* The agent the threads share: the TechnologyAgent of the factory.
SharedAgent == "technology"

\* The wrapper's lookup in thread t for the key of an idea: on a hit the
\* cached analysis is returned.
AnalysisLookup ==
    \E t \in Threads, input \in IdeaInputs :
        LET key == AnalysisKey(Idea(input[1], SharedAgent, input[2]))
            cache == agent_state[SharedAgent].analysis_cache
        IN
        /\ an_threads[t].pc = "idle"
        /\ IF LruIndex(cache, key) # 0
           THEN /\ an_threads' = [an_threads EXCEPT ![t] =
                       [pc |-> "done", key |-> key, raised |-> None,
                        value |-> cache[LruIndex(cache, key)].value]]
                /\ agent_state' = [agent_state EXCEPT
                       ![SharedAgent].analysis_cache = LruTouch(cache, key)]
           ELSE /\ an_threads' = [an_threads EXCEPT ![t] =
                       [pc |-> "miss", key |-> key, raised |-> None,
                        value |-> <<>>]]
                /\ UNCHANGED agent_state
        /\ UNCHANGED <<an_completions, diagram_cache, db_ideas, db_diagrams,
                       factory_vars, cm_vars, co_vars, ag_vars, ip_vars,
                       collab_vars, threads, st_vars>>

\* After a miss thread t runs the body of _analyze_idea_cached: one
\* completion, parsed unless it failed.
AnalysisCompletion ==
    \E t \in Threads, reply \in {CompletionFailed, NarrativeText(5)} :
        /\ an_threads[t].pc = "miss"
        /\ an_completions' = Append(an_completions, an_threads[t].key)
        /\ an_threads' = [an_threads EXCEPT ![t] =
               IF reply.kind = "failed"
               THEN [pc |-> "done", key |-> an_threads[t].key,
                     raised |-> "CompletionFailed", value |-> <<>>]
               ELSE [pc |-> "answered", key |-> an_threads[t].key,
                     raised |-> None,
                     value |-> parse_analysis_response(
                                   AgentClassOf(SharedAgent), reply).value]]
        /\ UNCHANGED <<svc_vars, factory_vars, cm_vars, co_vars, ag_vars,
                       ip_vars, collab_vars, threads, st_vars>>

\* Back in the wrapper, thread t stores its result unless the key was cached
\* during the call, and returns its own result either way.
AnalysisStore ==
    \E t \in Threads :
        LET cache == agent_state[SharedAgent].analysis_cache IN
        /\ an_threads[t].pc = "answered"
        /\ agent_state' = [agent_state EXCEPT ![SharedAgent].analysis_cache =
               IF LruIndex(cache, an_threads[t].key) # 0 THEN cache
               ELSE LruInsert(cache, an_threads[t].key, an_threads[t].value,
                              analysis_cache_maxsize)]
        /\ an_threads' = [an_threads EXCEPT ![t].pc = "done"]
        /\ UNCHANGED <<an_completions, diagram_cache, db_ideas, db_diagrams,
                       factory_vars, cm_vars, co_vars, ag_vars, ip_vars,
                       collab_vars, threads, st_vars>>

NextAnalysis == AnalysisLookup \/ AnalysisCompletion \/ AnalysisStore

InitAnalysis ==
    /\ FactoryInit /\ CmIdle /\ CoIdle /\ ServicesInit /\ AgIdle /\ IpIdle
    /\ ExtIdle

SpecAnalysis == InitAnalysis /\ [][NextAnalysis]_vars

(***************************************************************************)
(* Properties of concurrent analyses (checked under SpecAnalysis).         *)
(***************************************************************************)
\* Number of analysis completions requested for cache key k.
CompletionsFor(k) ==
    Cardinality({i \in 1..Len(an_completions) : an_completions[i] = k})

\* C23: when threads call process_idea concurrently on one agent with the
\* same (concept, sorted keywords) key and no completion fails, the
\* completion service is invoked once for the analysis of that key and all
\* callers obtain the same analysis.
C23_ConcurrentAnalysisOnce ==
    \A k \in Range(an_completions) :
        (\A t \in Threads : an_threads[t].key = k => an_threads[t].raised = None)
            => /\ CompletionsFor(k) = 1
               /\ \A t, u \in Threads :
                      (/\ an_threads[t].pc = "done" /\ an_threads[u].pc = "done"
                       /\ an_threads[t].key = k /\ an_threads[u].key = k)
                          => an_threads[t].value = an_threads[u].value

\* The idea develop_idea built and handed to the agents in ip_last.
IdeaGiven ==
    Idea(ip_last.concept, classify_domain(ip_last.classify).value,
         extract_keywords(ip_last.keywords).value)

\* C24: process_idea of every agent, process_complex_idea and develop_idea
\* leave the Idea as it was given: after each agent's call its concept,
\* domain, keywords (order included), development_stage and context are
\* those structured from the input, and the returned dict carries them.
C24_IdeaUnchanged ==
    /\ \A i \in 1..Len(ip_last.calls) :
          ip_last.calls[i].op = "process_idea"
              => ip_last.calls[i].idea = IdeaGiven
    /\ (ip_last.op = "develop_idea" /\ ip_last.raised = None)
          => /\ ip_last.value.idea.concept = IdeaGiven.concept
             /\ ip_last.value.idea.domain = IdeaGiven.domain
             /\ ip_last.value.idea.keywords = IdeaGiven.keywords

\* Two caching agents in a row processed an idea whose keywords are not in
\* sorted order.
C24_Witness ==
    /\ Len(ip_last.calls) >= 2
    /\ \A i \in 1..2 : /\ ip_last.calls[i].op = "process_idea"
                       /\ ip_last.calls[i].raised = None
                       /\ AgentClassOf(ip_last.calls[i].agent) # DomainAgent
    /\ IdeaGiven.keywords # sorted(IdeaGiven.keywords)

\* C25: every AgentResponse process_idea returns has at most 5 suggestions,
\* at most 5 questions and at most 5 related concepts, whatever the class of
\* the agent.
C25_AtMostFivePerCategory ==
    (ag_last.op = "process_idea" /\ ag_last.raised = None)
        => /\ Len(ag_last.value.suggestions) <= 5
           /\ Len(ag_last.value.questions) <= 5
           /\ Len(ag_last.value.related_concepts) <= 5

(***************************************************************************)
(* agents/composition/subtask_delegator.py                                 *)
(***************************************************************************)
\* The fields of the dataclass Idea; an instance has no other attribute.
IdeaAttrs == {"concept", "domain", "keywords", "development_stage", "context"}

\* idea.<name>
idea_attr(idea, name) ==
    IF name \in IdeaAttrs THEN Returned("getattr", idea[name])
    ELSE Raised("getattr", "AttributeError")

SubTask(description, domain, context, parent_task_id) ==
    [description |-> description, domain |-> domain, context |-> context,
     parent_task_id |-> parent_task_id]

\* SubtaskDelegator.create_subtasks(idea, primary_domain): a matching
\* trigger builds its SubTask, which evaluates idea.id.
create_subtasks(idea, primary_domain) ==
    LET technical == "technical" \in Range(idea.keywords)
        market == "market" \in Range(idea.keywords)
        id == idea_attr(idea, "id")
    IN
    IF (technical \/ market) /\ id.raised # None
    THEN Raised("create_subtasks", id.raised)
    ELSE Returned("create_subtasks",
             (IF technical
              THEN <<SubTask("Technical feasibility analysis", "technology",
                             "feasibility", id.value)>>
              ELSE <<>>)
             \o (IF market
                 THEN <<SubTask("Market analysis", "business", "market",
                                id.value)>>
                 ELSE <<>>))

SubtaskKeywords == {"technical", "market", "iot"}

KeywordLists == UNION {[1..n -> SubtaskKeywords] : n \in 0..MaxKeywords}

\* One call delegator.create_subtasks(idea, primary_domain)
CreateSubtasks ==
    /\ \E keywords \in KeywordLists, primary_domain \in Domains :
         LET out == create_subtasks(Idea("smart garden", primary_domain, keywords),
                                    primary_domain)
         IN st_last' = [op |-> "create_subtasks", keywords |-> keywords,
                        primary_domain |-> primary_domain,
                        raised |-> out.raised, value |-> out.value]
    /\ UNCHANGED <<task_registry, factory_vars, cm_vars, co_vars, svc_vars,
                   ag_vars, ip_vars, collab_vars, threads, an_vars>>

NextSubtasks == CreateSubtasks

InitSubtasks ==
    /\ FactoryInit /\ CmIdle /\ CoIdle /\ ServicesInit /\ AgIdle /\ IpIdle
    /\ ExtIdle

SpecSubtasks == InitSubtasks /\ [][NextSubtasks]_vars

\* The domains of the subtasks the triggers in `keywords` call for.
ExpectedSubtaskDomains(keywords) ==
    (IF "technical" \in Range(keywords) THEN <<"technology">> ELSE <<>>)
    \o (IF "market" \in Range(keywords) THEN <<"business">> ELSE <<>>)

\* C26: create_subtasks returns without failing; the list holds a technology
\* subtask iff "technical" is a keyword and a business subtask iff "market"
\* is one, technology first, and is empty when neither is present.
C26_SubtasksMatchTriggers ==
    st_last.op = "create_subtasks"
        => /\ st_last.raised = None
           /\ [i \in 1..Len(st_last.value) |-> st_last.value[i].domain]
                 = ExpectedSubtaskDomains(st_last.keywords)

\* The domain tags the prompts of agents/prompt_manager.py are keyed by.
DomainTags ==
    {"technology", "business", "hard_science", "code", "literature",
     "social_science", "arts", "philosophy", "writing"}

\* C27: each of the nine domain tags is a member of DomainType: when the
\* classifier answers one of them, _classify_domain returns that member and
\* develop_idea goes on to the agent of that domain instead of failing.
C27_EveryTagIsADomain ==
    (/\ ip_last.op = "develop_idea"
     /\ ip_last.classify.kind = "text"
     /\ ip_last.classify.body \in DomainTags)
        => /\ classify_domain(ip_last.classify)
                 = Returned("DomainType", ip_last.classify.body)
           /\ (ip_last.keywords.kind = "text" /\ ip_last.supporting = <<>>)
                 => /\ ip_last.calls # <<>>
                    /\ ip_last.calls[1].agent = ip_last.classify.body

\* C28: a develop_idea call that returns adds exactly one row to the table
\* ideas, the saves of the agents included, and one that raises adds none.
C28_OneIdeaRecordPerCall ==
    ip_last.op = "develop_idea"
        => db_ideas - ip_last.rows_before
              = (IF ip_last.raised = None THEN 1 ELSE 0)

\* The rows of table diagrams saved under an idea id assigned during the
\* develop_idea call in ip_last.
SavedDuringCall ==
    {db_diagrams[i] : i \in {j \in 1..Len(db_diagrams) :
                                db_diagrams[j].idea_id > ip_last.rows_before}}

\* C29: the id develop_idea returns identifies the idea record under which
\* the call's diagram was saved: when the result has a next_steps_tree and
\* the agent persisted it, get_diagram(result id) is a row saved in this call.
C29_ReturnedIdFindsDiagram ==
    (/\ ip_last.op = "develop_idea"
     /\ ip_last.raised = None
     /\ ip_last.value.development.next_steps_tree # None
     /\ SavedDuringCall # {})
        => /\ get_diagram(db_diagrams, ip_last.value.id) # None
           /\ get_diagram(db_diagrams, ip_last.value.id) \in SavedDuringCall

\* The analysis of the call in ag_last was asked for and failed: the call
\* raised before it reached the implementation steps.
AnalysisFailed ==
    /\ ag_last.op = "process_idea"
    /\ ag_last.raised # None
    /\ ag_last.replies.analysis # Unused
    /\ ag_last.replies.steps = Unused

\* The agent was given the key of the idea in ag_last before, and no call
\* with that key got an analysis.
FailedBefore ==
    /\ AnalysisKey(ag_last.idea) \in {AnalysisKey(i) : i \in ag_last.before.ideas}
    /\ AnalysisKey(ag_last.idea) \notin ag_last.before.analysed

\* C30: a failed analysis is never memoized: after an analysis whose
\* completion or parse failed the agent's cache holds no entry for the key,
\* and the next process_idea with that key asks the completion service again.
C30_FailedAnalysisNotMemoized ==
    (ag_last.op = "process_idea" /\ AgentClassOf(ag_domain) # DomainAgent)
        => /\ AnalysisFailed
                => LruIndex(agent_state[ag_domain].analysis_cache,
                            AnalysisKey(ag_last.idea)) = 0
           /\ FailedBefore
                => /\ ag_last.replies.analysis # Unused
                   /\ ag_last.completions >= 1

\* After a failed analysis for the key, the next call with it succeeded.
C30_Witness ==
    /\ ag_last.op = "process_idea"
    /\ AgentClassOf(ag_domain) # DomainAgent
    /\ FailedBefore
    /\ ag_last.raised = None
    /\ ag_last.replies.analysis.kind = "text"
    /\ LruIndex(agent_state[ag_domain].analysis_cache,
                AnalysisKey(ag_last.idea)) # 0

====
